---- MODULE Spec2Model ----
(***************************************************************************)
(* The editing core of the design tool: the DesignEditor (document store   *)
(* and mutation API, class DesignEditor) and the HistoryManager with its   *)
(* snapshot commands (editor/commands/index.ts).                           *)
(*                                                                         *)
(* JavaScript values are encoded as follows.  An object is a function from *)
(* its present keys to their values, so a key that was deleted or never    *)
(* set is outside DOMAIN, and object spread is Merge.  A string-typed      *)
(* property holding the value undefined holds Undefined.  The value null   *)
(* in a place that otherwise holds an object is Null.  Ids are positive    *)
(* integers handed out by a counter (crypto.randomUUID never repeats); the *)
(* selection null is NoSelection.  Opacity and transparency are in percent.*)
(***************************************************************************)
EXTENDS Integers, Sequences, FiniteSets, TLC

VARIABLES
    state,         \* the zustand store: [value, selection, canUndo, canRedo]
    history,       \* HistoryManager.history
    currentIndex,  \* HistoryManager.currentIndex (0-based, -1 when empty)
    nextId,        \* number of ids crypto.randomUUID has handed out
    nCalls,        \* mutation API calls made so far
    nCmd,          \* Command objects constructed so far (numbers them: object identity)
    ret,           \* the last public call: its name, and its return value or the error raised
    notified,      \* store states delivered to subscribers by the last call, in order
    dragStateRef,  \* useDragGesture's dragStateRef.current: Null or [startX, startY, snapshot]
    room,          \* rooms/<roomId>/design on the server: Null or [value, lastUpdatedBy]
    clients,       \* the App instances in the room, by CollaborativeService.userId
    optimizing,    \* RightPanel's handleOptimizeText call awaiting its result: Null or the
                   \* selectedText it closed over
    dragTimeoutRef,\* DesignView's dragTimeoutRef.current: Null or the pending timer's closure
    pointer        \* the pointing device: the buttons held, whether an element has its
                   \* pointer capture, and whether the primary button was held without a
                   \* release since the pointer-down the pending timer (timerHeld) and the
                   \* drag session (sessionHeld) come from

\* the state of DesignView's pointer handling
gesture == <<dragTimeoutRef, pointer>>

\* the state of the components around the editor
ui == <<optimizing, gesture>>

vars == <<state, history, currentIndex, nextId, nCalls, nCmd, ret, notified, dragStateRef,
          room, clients, ui>>

(***************************** bounds **************************************)
\* history capacity; 50 in the code, scaled down so that eviction is reached
maxHistorySize == 2
\* ids crypto.randomUUID may hand out in one behaviour
MaxIds == 2

\* calls of the mutation API (create, update, delete, load, sync) in one behaviour,
\* enough to overflow the history; undo, redo and setSelection are not counted
MaxCalls == 3

Ids == 1..MaxIds

(***************************** JS values ***********************************)
Undefined == "undefined"
Null == [isNull |-> TRUE]
NoSelection == 0
\* outcomes of a public call
Void(op) == [op |-> op, kind |-> "void", ids |-> <<>>]
TypeError(op) == [op |-> op, kind |-> "TypeError", ids |-> <<>>]
RetId(op, id) == [op |-> op, kind |-> "id", ids |-> <<id>>]
RetIds(op, ids) == [op |-> op, kind |-> "ids", ids |-> ids]

EmptyObj == [k \in {} |-> k]

\* { ...f, ...g }
Merge(f, g) == [k \in DOMAIN f \cup DOMAIN g |-> IF k \in DOMAIN g THEN g[k] ELSE f[k]]

\* { ...m, [k]: v }
Put(m, k, v) == [x \in DOMAIN m \cup {k} |-> IF x = k THEN v ELSE m[x]]

\* the object without the keys in ks
Without(m, ks) == [x \in DOMAIN m \ ks |-> m[x]]

Has(obj, k) == k \in DOMAIN obj

RECURSIVE SeqToSet(_)
SeqToSet(s) == IF s = <<>> THEN {} ELSE {Head(s)} \cup SeqToSet(Tail(s))

RECURSIVE SelectSeqBy(_, _)
SelectSeqBy(s, keep) ==
    IF s = <<>> THEN <<>>
    ELSE IF Head(s) \in keep THEN <<Head(s)>> \o SelectSeqBy(Tail(s), keep)
         ELSE SelectSeqBy(Tail(s), keep)

\* utils: the list without repeated elements, first occurrences kept in order
RECURSIVE uniqued(_)
uniqued(s) ==
    IF s = <<>> THEN <<>>
    ELSE LET init == uniqued(SubSeq(s, 1, Len(s) - 1))
             last == s[Len(s)]
         IN IF last \in SeqToSet(init) THEN init ELSE Append(init, last)

(***************************** documents ***********************************)
DEFAULT_EDITOR_VALUE ==
    [shapes |-> EmptyObj, texts |-> EmptyObj, images |-> EmptyObj,
     attributes |-> [width |-> 800, height |-> 600]]

\* the string-typed properties of a text element, the ones that may hold undefined here
StringKeys == {"content", "color", "fontFamily"}

\* #cleanUndefinedValues on one object whose properties are leaves
cleanLeafObject(obj) ==
    LET keep == {k \in DOMAIN obj : ~(k \in StringKeys /\ obj[k] = Undefined)}
    IN [k \in keep |-> obj[k]]

\* #cleanUndefinedValues on a document: every object is rebuilt from the entries whose
\* value is not undefined.  In this model only the string-typed properties of a text
\* element can hold undefined, so the other objects are rebuilt unchanged.
cleanUndefinedValues(doc) ==
    [doc EXCEPT !.texts = [id \in DOMAIN doc.texts |-> cleanLeafObject(doc.texts[id])]]

(***************************** commands ************************************)
\* new BaseCommand(previousValue, nextValue, description): structuredClone copies both
\* documents; a TLA+ value cannot be aliased, so the copy is the value itself.
BaseCommand(previousValue, nextValue, description) ==
    [previousValue |-> previousValue, nextValue |-> nextValue,
     description |-> description, serial |-> nCmd + 1]

execute(command) == command.nextValue

undoCommand(command) == command.previousValue

(***************************** HistoryManager ******************************)
canUndoAt(i) == i >= 0

canRedoAt(h, i) == i < Len(h) - 1

\* mutant: the cursor advances even when the oldest command was evicted
executeCommand_alwaysAdvance(h, i, command) ==
    LET pushed == Append(SubSeq(h, 1, i + 1), command)
    IN [history |-> IF Len(pushed) > maxHistorySize THEN Tail(pushed) ELSE pushed,
        currentIndex |-> i + 1,
        result |-> execute(command)]

\* mutant: the redo branch is kept when a command is executed in the middle
executeCommand_noTruncate(h, i, command) ==
    LET pushed == Append(h, command)
    IN [history |-> IF Len(pushed) > maxHistorySize THEN Tail(pushed) ELSE pushed,
        currentIndex |-> IF Len(pushed) > maxHistorySize THEN i ELSE i + 1,
        result |-> execute(command)]

\* mutant: the history is never limited
executeCommand_noLimit(h, i, command) ==
    [history |-> Append(SubSeq(h, 1, i + 1), command),
     currentIndex |-> i + 1,
     result |-> execute(command)]

executeCommand(h, i, command) ==
    LET pushed == Append(SubSeq(h, 1, i + 1), command)
    IN IF Len(pushed) > maxHistorySize
       THEN [history |-> Tail(pushed), currentIndex |-> i, result |-> execute(command)]
       ELSE [history |-> pushed, currentIndex |-> i + 1, result |-> execute(command)]

\* mutant: undo hands back the command's next snapshot
hmUndo_nextSnapshot(h, i) ==
    IF ~canUndoAt(i) THEN [currentIndex |-> i, isNull |-> TRUE, result |-> EmptyObj]
    ELSE [currentIndex |-> i - 1, isNull |-> FALSE, result |-> execute(h[i + 1])]

\* mutant: undo at the boundary still moves the cursor
hmUndo_noGuard(h, i) ==
    IF ~canUndoAt(i) THEN [currentIndex |-> i - 1, isNull |-> TRUE, result |-> EmptyObj]
    ELSE [currentIndex |-> i - 1, isNull |-> FALSE, result |-> undoCommand(h[i + 1])]

\* HistoryManager.undo: isNull is the null sentinel
hmUndo(h, i) ==
    IF ~canUndoAt(i) THEN [currentIndex |-> i, isNull |-> TRUE, result |-> EmptyObj]
    ELSE [currentIndex |-> i - 1, isNull |-> FALSE, result |-> undoCommand(h[i + 1])]

\* HistoryManager.redo
hmRedo(h, i) ==
    IF ~canRedoAt(h, i) THEN [currentIndex |-> i, isNull |-> TRUE, result |-> EmptyObj]
    ELSE [currentIndex |-> i + 1, isNull |-> FALSE, result |-> execute(h[i + 2])]

(***************************** the store ***********************************)
\* zustand setState(partial): the new state is the old one with the partial's keys replaced
setState(st, partial) == Merge(st, partial)

\* mutant: the flags are not refreshed from the HistoryManager
updateHistoryState_stale(st, h, i) == st

\* #updateHistoryState
updateHistoryState(st, h, i) ==
    setState(st, [canUndo |-> canUndoAt(i), canRedo |-> canRedoAt(h, i)])

\* no button held
PointerAtRest ==
    [buttons |-> 0, captured |-> FALSE, timerHeld |-> FALSE, sessionHeld |-> FALSE]

(***************************** collaboration *******************************)
\* CollaborativeService.userId of the App instances in the room
UserIds == {"user_a", "user_b"}

\* an App instance after construction: the store of its editor, the writes it has sent
\* that the server has not applied yet, and the room values the server has sent that it
\* has not processed yet
NewClient ==
    [state |-> [value |-> DEFAULT_EDITOR_VALUE, selection |-> NoSelection,
                canUndo |-> FALSE, canRedo |-> FALSE],
     up |-> <<>>,
     down |-> <<>>]

Init ==
    /\ state = [value |-> DEFAULT_EDITOR_VALUE, selection |-> NoSelection,
                canUndo |-> FALSE, canRedo |-> FALSE]
    /\ history = <<>>
    /\ currentIndex = -1
    /\ nextId = 0
    /\ nCalls = 0
    /\ nCmd = 0
    /\ ret = Void("constructor")
    /\ notified = <<>>
    /\ dragStateRef = Null
    /\ room = Null
    /\ clients = [userId \in UserIds |-> NewClient]
    /\ optimizing = Null
    /\ dragTimeoutRef = Null
    /\ pointer = PointerAtRest

\* the tail shared by the historied operations: executeCommand, one setState with the
\* document (cleaned where the operation cleans it) and the selection where the
\* operation sets it, then #updateHistoryState
executeAndStore(command, selPartial, clean, retv) ==
    LET r   == executeCommand(history, currentIndex, command)
        v   == IF clean THEN cleanUndefinedValues(r.result) ELSE r.result
        st1 == setState(state, Merge([value |-> v], selPartial))
        st2 == updateHistoryState(st1, r.history, r.currentIndex)
    IN /\ nCalls < MaxCalls
       /\ nCalls' = nCalls + 1
       /\ nCmd' = nCmd + 1
       /\ history' = r.history
       /\ currentIndex' = r.currentIndex
       /\ state' = st2
       /\ notified' = <<st1, st2>>
       /\ ret' = retv
       /\ UNCHANGED <<dragStateRef, room, clients, gesture>>

\* a historied operation called from anywhere but a pending handleOptimizeText
Historied(command, selPartial, clean, retv) ==
    /\ executeAndStore(command, selPartial, clean, retv)
    /\ UNCHANGED optimizing

\* a call that returns (or raises) before touching anything
returnEarly(retv) ==
    /\ nCalls < MaxCalls
    /\ nCalls' = nCalls + 1
    /\ ret' = retv
    /\ notified' = <<>>
    /\ UNCHANGED <<state, history, currentIndex, nextId, nCmd, dragStateRef, room, clients,
                   gesture>>

\* such a call from anywhere but a pending handleOptimizeText
NoOp(retv) ==
    /\ returnEarly(retv)
    /\ UNCHANGED optimizing

\* mutant: a direct update is wrapped in a Command like a discrete edit
Direct_withCommand(partial, retv) ==
    /\ Historied(BaseCommand(state.value, partial.value, "Update"), EmptyObj, FALSE, retv)
    /\ UNCHANGED nextId

\* mutant: the command at the cursor shares its next snapshot with the store, so a
\* direct update shows in it
Direct_aliased(partial, retv) ==
    /\ nCalls < MaxCalls
    /\ nCalls' = nCalls + 1
    /\ state' = setState(state, partial)
    /\ notified' = <<state'>>
    /\ ret' = retv
    /\ history' = [j \in 1..Len(history) |->
                     IF j = currentIndex + 1
                     THEN [history[j] EXCEPT !.nextValue = state'.value]
                     ELSE history[j]]
    /\ UNCHANGED <<currentIndex, nextId, nCmd, dragStateRef, room, clients, ui>>

\* a call that does one setState and leaves the history alone
Direct(partial, retv) ==
    /\ nCalls < MaxCalls
    /\ nCalls' = nCalls + 1
    /\ state' = setState(state, partial)
    /\ notified' = <<state'>>
    /\ ret' = retv
    /\ UNCHANGED <<history, currentIndex, nextId, nCmd, dragStateRef, room, clients, ui>>

SetSelection(newSelection) ==
    /\ state' = setState(state, [selection |-> newSelection])
    /\ notified' = <<state'>>
    /\ ret' = Void("setSelection")
    /\ UNCHANGED <<history, currentIndex, nextId, nCalls, nCmd, dragStateRef, room, clients, ui>>

\* mutant: undo and redo keep the selection
Restore_keepsSelection(st, h, r) ==
    IF r.isNull
    THEN [state |-> st, currentIndex |-> r.currentIndex, notified |-> <<>>]
    ELSE LET st1 == setState(st, [value |-> r.result])
             st2 == updateHistoryState(st1, h, r.currentIndex)
         IN [state |-> st2, currentIndex |-> r.currentIndex, notified |-> <<st1, st2>>]

\* mutant: undo and redo store the snapshot and leave canUndo / canRedo as they were
Restore_keepsFlags(st, h, r) ==
    IF r.isNull
    THEN [state |-> st, currentIndex |-> r.currentIndex, notified |-> <<>>]
    ELSE LET st1 == setState(st, [value |-> r.result, selection |-> NoSelection])
         IN [state |-> st1, currentIndex |-> r.currentIndex, notified |-> <<st1>>]

\* what a snapshot handed back by the HistoryManager does to the store: nothing when it
\* is the null sentinel, else one setState with the document and a null selection, then
\* #updateHistoryState
Restore(st, h, r) ==
    IF r.isNull
    THEN [state |-> st, currentIndex |-> r.currentIndex, notified |-> <<>>]
    ELSE LET st1 == setState(st, [value |-> r.result, selection |-> NoSelection])
             st2 == updateHistoryState(st1, h, r.currentIndex)
         IN [state |-> st2, currentIndex |-> r.currentIndex, notified |-> <<st1, st2>>]

\* DesignEditor.undo on store st and history (h, i)
undoOutcome(st, h, i) == Restore(st, h, hmUndo(h, i))

\* DesignEditor.redo on store st and history (h, i)
redoOutcome(st, h, i) == Restore(st, h, hmRedo(h, i))

Undo ==
    LET o == undoOutcome(state, history, currentIndex)
    IN /\ state' = o.state
       /\ currentIndex' = o.currentIndex
       /\ notified' = o.notified
       /\ ret' = Void("undo")
       /\ UNCHANGED <<history, nextId, nCalls, nCmd, dragStateRef, room, clients, ui>>

Redo ==
    LET o == redoOutcome(state, history, currentIndex)
    IN /\ state' = o.state
       /\ currentIndex' = o.currentIndex
       /\ notified' = o.notified
       /\ ret' = Void("redo")
       /\ UNCHANGED <<history, nextId, nCalls, nCmd, dragStateRef, room, clients, ui>>

(***************************** inputs ***********************************)
\* an id no local create hands out: an entity made by another client or read from a file
RemoteId == MaxIds + 1

\* id lists handed to the operations on several entities: repeated and absent ids included
IdLists == {<<a>> : a \in Ids} \cup {<<1, 1>>, <<1, 2>>}

UnitViewBox == [minX |-> 0, minY |-> 0, width |-> 100, height |-> 100]

RedStroke == [color |-> "#ff0000", weight |-> 5]

ShapePayloads ==
    { [width |-> 100, height |-> 100, viewBox |-> UnitViewBox,
       paths |-> <<[d |-> "M0 0", stroke |-> RedStroke], [d |-> "M1 1"]>>] }

TextPayloads ==
    { [left |-> 10, top |-> 20, content |-> "hello", fontSize |-> 20, color |-> "#000000",
       fontWeight |-> "normal", fontFamily |-> "Arial"] }

ImagePayloads ==
    { [src |-> "data:a", width |-> 200, height |-> 100, left |-> 10, top |-> 20] }

Contents == {"bye"}

TextStyles == { [fontSize |-> 30], [color |-> Undefined] }

Positions == { [left |-> 30, top |-> 40] }

BoundsInputs == { [left |-> 30, top |-> 40, width |-> 200, height |-> 100] }

Opacities == {50}

\* the rest of updateShapeAttributes' payload once ids is taken out
ShapeAttributes == { [transparency |-> 50] }

\* attribute requests of updateShapePaths: a key outside DOMAIN is left unchanged,
\* Null disables, an object enables or updates
PathAttributes ==
    { [stroke |-> Null],
      [stroke |-> EmptyObj] }

\* a text made elsewhere, as a remote document carries it
RemoteText ==
    [type |-> "text", id |-> RemoteId,
     bounds |-> [left |-> 0, top |-> 0, width |-> 100, height |-> 24],
     content |-> "remote", fontSize |-> 20, color |-> Undefined,
     fontWeight |-> "normal", fontFamily |-> "Arial"]

\* documents that arrive from the room: the empty one, and the local one with a remote text
RemoteDocs ==
    { DEFAULT_EDITOR_VALUE,
      [state.value EXCEPT !.texts = Put(state.value.texts, RemoteId, RemoteText)] }

\* documents read from a file
ImportedDocs ==
    { [DEFAULT_EDITOR_VALUE EXCEPT !.texts =
          Put(EmptyObj, RemoteId, Without(RemoteText, {"color"}))] }

(***************************** Mutation API *******************************)
\* x || d for a string: undefined, absent and "" are falsy
OrStr(obj, k, d) == IF Has(obj, k) /\ obj[k] # Undefined /\ obj[k] # "" THEN obj[k] ELSE d

\* x || d for a number: absent and 0 are falsy
OrNum(obj, k, d) == IF Has(obj, k) /\ obj[k] # 0 THEN obj[k] ELSE d

\* x ?? d for a number
Coalesce(obj, k, d) == IF Has(obj, k) THEN obj[k] ELSE d

\* x ? {k: x} : null, spread into an object: the key is set when x is truthy
IfTruthy(obj, k) == IF Has(obj, k) /\ obj[k] # 0 THEN [x \in {k} |-> obj[k]] ELSE EmptyObj

\* #getShapeBoundsInCenter; the sizes used here are even, so the halves are exact
getShapeBoundsInCenter(size, value) ==
    [left |-> value.attributes.width \div 2 - size.width \div 2,
     top |-> value.attributes.height \div 2 - size.height \div 2,
     width |-> size.width, height |-> size.height]

CreateShape(payload) ==
    LET nodeId == nextId + 1
        previousValue == state.value
        shape == [type |-> "shape", id |-> nodeId,
                  bounds |-> Merge(Merge(getShapeBoundsInCenter(payload, previousValue),
                                         IfTruthy(payload, "left")),
                                   IfTruthy(payload, "top")),
                  viewBox |-> [minX |-> payload.viewBox.minX, minY |-> payload.viewBox.minY,
                               width |-> payload.viewBox.width,
                               height |-> payload.viewBox.height],
                  paths |-> payload.paths]
        nextValue == [previousValue EXCEPT !.shapes = Put(previousValue.shapes, nodeId, shape)]
    IN /\ nextId < MaxIds
       /\ nextId' = nodeId
       /\ Historied(BaseCommand(previousValue, nextValue, "Create shape"),
                    [selection |-> nodeId], FALSE, RetId("createShape", nodeId))

\* mutant: createText does not draw a fresh id
CreateText_reusedId(payload) ==
    LET textId == 1
        previousValue == state.value
        text == [type |-> "text", id |-> textId,
                 bounds |-> [left |-> payload.left, top |-> payload.top, width |-> 100,
                             height |-> (payload.fontSize * 12) \div 10],
                 content |-> payload.content, fontSize |-> payload.fontSize,
                 color |-> payload.color, fontWeight |-> payload.fontWeight,
                 fontFamily |-> payload.fontFamily]
        nextValue == [previousValue EXCEPT !.texts = Put(previousValue.texts, textId, text)]
    IN /\ nextId < MaxIds
       /\ nextId' = nextId + 1
       /\ Historied(BaseCommand(previousValue, nextValue, "Create shape"),
                    [selection |-> textId], FALSE, RetId("createText", textId))

CreateText(payload) ==
    LET textId == nextId + 1
        previousValue == state.value
        text == [type |-> "text", id |-> textId,
                 bounds |-> [left |-> payload.left, top |-> payload.top, width |-> 100,
                             height |-> (payload.fontSize * 12) \div 10],
                 content |-> payload.content, fontSize |-> payload.fontSize,
                 color |-> payload.color, fontWeight |-> payload.fontWeight,
                 fontFamily |-> payload.fontFamily]
        nextValue == [previousValue EXCEPT !.texts = Put(previousValue.texts, textId, text)]
    IN /\ nextId < MaxIds
       /\ nextId' = textId
       /\ Historied(BaseCommand(previousValue, nextValue, "Create shape"),
                    [selection |-> textId], FALSE, RetId("createText", textId))

CreateImage(payload) ==
    LET imageId == nextId + 1
        previousValue == state.value
        bounds == [left |-> Coalesce(payload, "left",
                        previousValue.attributes.width \div 2 - payload.width \div 2),
                   top |-> Coalesce(payload, "top",
                        previousValue.attributes.height \div 2 - payload.height \div 2),
                   width |-> payload.width, height |-> payload.height]
        image == [type |-> "image", id |-> imageId, bounds |-> bounds,
                  src |-> payload.src, opacity |-> 100]
        nextValue == [previousValue EXCEPT !.images = Put(previousValue.images, imageId, image)]
    IN /\ nextId < MaxIds
       /\ nextId' = imageId
       /\ Historied(BaseCommand(previousValue, nextValue, "Create shape"),
                    [selection |-> imageId], FALSE, RetId("createImage", imageId))

\* mutant: a text that is gone is put back with the new content
updateTextContent_upsert(textId, content) ==
    LET previousValue == state.value
        currentText == IF Has(previousValue.texts, textId) THEN previousValue.texts[textId]
                       ELSE Merge(RemoteText, [id |-> textId, color |-> "#000000"])
        nextValue == [previousValue EXCEPT !.texts =
            Put(previousValue.texts, textId, Merge(currentText, [content |-> content]))]
    IN /\ executeAndStore(BaseCommand(previousValue, nextValue, "Update text content"),
                          EmptyObj, TRUE, Void("updateTextContent"))
       /\ UNCHANGED nextId

\* DesignEditor.updateTextContent
updateTextContent(textId, content) ==
    LET previousValue == state.value
    IN IF ~Has(previousValue.texts, textId) THEN returnEarly(Void("updateTextContent"))
       ELSE LET currentText == previousValue.texts[textId]
                nextValue == [previousValue EXCEPT !.texts =
                    Put(previousValue.texts, textId, Merge(currentText, [content |-> content]))]
            IN /\ executeAndStore(BaseCommand(previousValue, nextValue, "Update text content"),
                                  EmptyObj, TRUE, Void("updateTextContent"))
               /\ UNCHANGED nextId

\* updateTextContent called from the content input of the RightPanel
UpdateTextContent(textId, content) ==
    /\ updateTextContent(textId, content)
    /\ UNCHANGED optimizing

UpdateTextStyle(textId, style) ==
    LET previousValue == state.value
    IN IF ~Has(previousValue.texts, textId) THEN NoOp(Void("updateTextStyle"))
       ELSE LET currentText == previousValue.texts[textId]
                nextValue == [previousValue EXCEPT !.texts =
                    Put(previousValue.texts, textId, Merge(currentText, style))]
            IN /\ Historied(BaseCommand(previousValue, nextValue, "Update text style"),
                            EmptyObj, TRUE, Void("updateTextStyle"))
               /\ UNCHANGED nextId

UpdateTextPosition(textId, pos) ==
    LET previousValue == state.value
    IN IF ~Has(previousValue.texts, textId) THEN NoOp(Void("updateTextPosition"))
       ELSE LET currentText == previousValue.texts[textId]
                nextValue == [previousValue EXCEPT !.texts =
                    Put(previousValue.texts, textId,
                        Merge(currentText, [bounds |-> Merge(currentText.bounds, pos)]))]
            IN Direct([value |-> cleanUndefinedValues(nextValue)], Void("updateTextPosition"))

UpdateImagePosition(imageId, pos) ==
    LET previousValue == state.value
    IN IF ~Has(previousValue.images, imageId) THEN NoOp(Void("updateImagePosition"))
       ELSE LET currentImage == previousValue.images[imageId]
                nextValue == [previousValue EXCEPT !.images =
                    Put(previousValue.images, imageId,
                        Merge(currentImage, [bounds |-> Merge(currentImage.bounds, pos)]))]
            IN Direct([value |-> cleanUndefinedValues(nextValue)], Void("updateImagePosition"))

UpdateImageBounds(imageId, bounds) ==
    LET previousValue == state.value
    IN IF ~Has(previousValue.images, imageId) THEN NoOp(Void("updateImageBounds"))
       ELSE LET currentImage == previousValue.images[imageId]
                nextValue == [previousValue EXCEPT !.images =
                    Put(previousValue.images, imageId, Merge(currentImage, [bounds |-> bounds]))]
            IN Direct([value |-> cleanUndefinedValues(nextValue)], Void("updateImageBounds"))

UpdateImageOpacity(imageId, opacity) ==
    LET previousValue == state.value
    IN IF ~Has(previousValue.images, imageId) THEN NoOp(Void("updateImageOpacity"))
       ELSE LET currentImage == previousValue.images[imageId]
                nextValue == [previousValue EXCEPT !.images =
                    Put(previousValue.images, imageId, Merge(currentImage, [opacity |-> opacity]))]
            IN /\ Historied(BaseCommand(previousValue, nextValue, "Update image opacity"),
                            EmptyObj, TRUE, Void("updateImageOpacity"))
               /\ UNCHANGED nextId

\* mutant: a delete leaves the selection as it was
DeleteFrom_keepSelection(op, coll, nodeIds) ==
    LET previousValue == state.value
        uniqueIds == uniqued(nodeIds)
        deleteIds == SelectSeqBy(uniqueIds, DOMAIN previousValue[coll])
    IN IF Len(deleteIds) = 0 THEN NoOp(RetIds(op, <<>>))
       ELSE LET nextValue == [previousValue EXCEPT
                                ![coll] = Without(previousValue[coll], SeqToSet(deleteIds))]
            IN /\ Historied(BaseCommand(previousValue, nextValue, "Delete shape"),
                            EmptyObj, FALSE, RetIds(op, deleteIds))
               /\ UNCHANGED nextId

\* mutant: a delete does not filter the requested ids to the ones present
DeleteFrom_noFilter(op, coll, nodeIds) ==
    LET previousValue == state.value
        deleteIds == uniqued(nodeIds)
    IN IF Len(deleteIds) = 0 THEN NoOp(RetIds(op, <<>>))
       ELSE LET nextValue == [previousValue EXCEPT
                                ![coll] = Without(previousValue[coll], SeqToSet(deleteIds))]
            IN /\ Historied(BaseCommand(previousValue, nextValue, "Delete shape"),
                            [selection |-> NoSelection], FALSE, RetIds(op, deleteIds))
               /\ UNCHANGED nextId

\* the shared body of deleteShapes / deleteTexts / deleteImages on collection coll
DeleteFrom(op, coll, nodeIds) ==
    LET previousValue == state.value
        uniqueIds == uniqued(nodeIds)
        deleteIds == SelectSeqBy(uniqueIds, DOMAIN previousValue[coll])
    IN IF Len(deleteIds) = 0 THEN NoOp(RetIds(op, <<>>))
       ELSE LET nextValue == [previousValue EXCEPT
                                ![coll] = Without(previousValue[coll], SeqToSet(deleteIds))]
            IN /\ Historied(BaseCommand(previousValue, nextValue, "Delete shape"),
                            [selection |-> NoSelection], FALSE, RetIds(op, deleteIds))
               /\ UNCHANGED nextId

DeleteShapes(nodeIds) == DeleteFrom("deleteShapes", "shapes", nodeIds)

DeleteTexts(nodeIds) == DeleteFrom("deleteTexts", "texts", nodeIds)

DeleteImages(nodeIds) == DeleteFrom("deleteImages", "images", nodeIds)

\* utils compactMap over ids, as updateShapeAttributes uses it: the entries of the ids
\* that name a shape, each spread with the attributes
AttributeEntries(ids, attributes) ==
    LET hit == SeqToSet(ids) \cap DOMAIN state.value.shapes
    IN [id \in hit |-> Merge(state.value.shapes[id], attributes)]

UpdateShapeAttributes(ids, attributes) ==
    LET nextValue == [state.value EXCEPT
                        !.shapes = Merge(state.value.shapes, AttributeEntries(ids, attributes))]
    IN Direct([value |-> cleanUndefinedValues(nextValue)], RetIds("updateShapeAttributes", ids))

ReplaceShapes(shapes) ==
    LET updatedIds == [i \in 1..Len(shapes) |-> shapes[i].id]
        entries == [id \in SeqToSet(updatedIds) |->
                      shapes[CHOOSE i \in 1..Len(shapes) :
                                /\ shapes[i].id = id
                                /\ \A j \in (i + 1)..Len(shapes) : shapes[j].id # id]]
        nextValue == [state.value EXCEPT !.shapes = Merge(state.value.shapes, entries)]
    IN Direct([value |-> cleanUndefinedValues(nextValue)], RetIds("replaceShapes", updatedIds))

defaultStroke == [color |-> "#000000", weight |-> 4]

\* the stroke updateShapePaths builds from a request: color and weight from the request or
\* the default
StrokeBase(spec) ==
    [color |-> OrStr(spec, "color", defaultStroke.color),
     weight |-> OrNum(spec, "weight", defaultStroke.weight)]

\* mutant: the default fill is given to every path left with neither stroke nor fill
UpdatedPath_alwaysInject(path, attributes) ==
    LET afterStroke ==
            IF ~Has(attributes, "stroke") THEN path
            ELSE IF attributes.stroke = Null THEN Without(path, {"stroke"})
            ELSE Put(path, "stroke",
                     IF Has(attributes.stroke, "dasharray")
                     THEN Put(StrokeBase(attributes.stroke), "dasharray",
                              attributes.stroke.dasharray)
                     ELSE StrokeBase(attributes.stroke))
        afterFill ==
            IF ~Has(attributes, "fill") THEN afterStroke
            ELSE IF attributes.fill = Null THEN Without(afterStroke, {"fill"})
            ELSE Put(afterStroke, "fill", attributes.fill)
    IN IF ~Has(afterFill, "stroke") /\ ~Has(afterFill, "fill")
       THEN Put(afterFill, "fill", [color |-> "#f8f9fa"])
       ELSE afterFill

\* one path under the attribute request
UpdatedPath(path, attributes) ==
    LET afterStroke ==
            IF ~Has(attributes, "stroke") THEN path
            ELSE IF attributes.stroke = Null THEN Without(path, {"stroke"})
            ELSE Put(path, "stroke",
                     IF Has(attributes.stroke, "dasharray")
                     THEN Put(StrokeBase(attributes.stroke), "dasharray",
                              attributes.stroke.dasharray)
                     ELSE StrokeBase(attributes.stroke))
        afterFill ==
            IF ~Has(attributes, "fill") THEN afterStroke
            ELSE IF attributes.fill = Null THEN Without(afterStroke, {"fill"})
            ELSE Put(afterStroke, "fill", attributes.fill)
    IN IF /\ ~Has(afterFill, "stroke")
          /\ ~Has(afterFill, "fill")
          /\ Has(attributes, "stroke")
          /\ attributes.stroke = Null
       THEN Put(afterFill, "fill", [color |-> "#f8f9fa"])
       ELSE afterFill

\* mutant: disabling fill does not remember the fill of the first path
UpdatedShape_forgetsFill(shape, attributes) ==
    LET hasFirst == Len(shape.paths) > 0
        withStroke ==
            IF ~Has(attributes, "stroke") THEN shape
            ELSE IF attributes.stroke = Null
            THEN IF hasFirst /\ Has(shape.paths[1], "stroke")
                 THEN Put(shape, "rememberedStroke", StrokeBase(shape.paths[1].stroke))
                 ELSE shape
            ELSE Put(shape, "rememberedStroke", StrokeBase(attributes.stroke))
        withFill ==
            IF ~Has(attributes, "fill") THEN withStroke
            ELSE IF attributes.fill = Null THEN withStroke
            ELSE Put(withStroke, "rememberedFill", attributes.fill)
    IN Put(withFill, "paths",
           [i \in 1..Len(shape.paths) |-> UpdatedPath(shape.paths[i], attributes)])

\* the updater updateShapePaths hands to #updateShapes, on a shape that exists
UpdatedShape(shape, attributes) ==
    LET hasFirst == Len(shape.paths) > 0
        withStroke ==
            IF ~Has(attributes, "stroke") THEN shape
            ELSE IF attributes.stroke = Null
            THEN IF hasFirst /\ Has(shape.paths[1], "stroke")
                 THEN Put(shape, "rememberedStroke", StrokeBase(shape.paths[1].stroke))
                 ELSE shape
            ELSE Put(shape, "rememberedStroke", StrokeBase(attributes.stroke))
        withFill ==
            IF ~Has(attributes, "fill") THEN withStroke
            ELSE IF attributes.fill = Null
            THEN IF hasFirst /\ Has(shape.paths[1], "fill")
                 THEN Put(withStroke, "rememberedFill", shape.paths[1].fill)
                 ELSE withStroke
            ELSE Put(withStroke, "rememberedFill", attributes.fill)
    IN Put(withFill, "paths",
           [i \in 1..Len(shape.paths) |-> UpdatedPath(shape.paths[i], attributes)])

\* the description updateShapePaths gives its command
PathOperation(attributes) ==
    IF Has(attributes, "stroke")
    THEN (IF attributes.stroke = Null THEN "Remove stroke" ELSE "Update stroke")
    ELSE (IF Has(attributes, "fill") /\ attributes.fill = Null
          THEN "Remove fill" ELSE "Update fill")

\* mutant: a call on two shapes executes one command per shape
UpdateShapePaths_perShape(ids, attributes) ==
    LET previousValue == state.value
        targets == uniqued(ids)
    IN IF \E i \in 1..Len(ids) : ~Has(previousValue.shapes, ids[i])
       THEN NoOp(TypeError("updateShapePaths"))
       ELSE LET entries == [id \in SeqToSet(ids) |->
                               UpdatedShape(previousValue.shapes[id], attributes)]
                nextValue == [previousValue EXCEPT
                                !.shapes = Merge(previousValue.shapes, entries)]
                midValue == IF Len(targets) = 2
                            THEN [previousValue EXCEPT
                                    !.shapes = Put(previousValue.shapes, targets[1],
                                                   entries[targets[1]])]
                            ELSE previousValue
                first == [previousValue |-> previousValue, nextValue |-> midValue,
                          description |-> PathOperation(attributes), serial |-> nCmd + 1]
                r1 == IF Len(targets) = 2
                      THEN executeCommand(history, currentIndex, first)
                      ELSE [history |-> history, currentIndex |-> currentIndex]
                r  == executeCommand(r1.history, r1.currentIndex,
                         [previousValue |-> midValue, nextValue |-> nextValue,
                          description |-> PathOperation(attributes),
                          serial |-> nCmd + Len(targets)])
                st1 == setState(state, [value |-> cleanUndefinedValues(r.result)])
                st2 == updateHistoryState(st1, r.history, r.currentIndex)
            IN /\ nCalls < MaxCalls
               /\ nCalls' = nCalls + 1
               /\ nCmd' = IF Len(targets) = 2 THEN nCmd + 2 ELSE nCmd + 1
               /\ history' = r.history
               /\ currentIndex' = r.currentIndex
               /\ state' = st2
               /\ notified' = <<st1, st2>>
               /\ ret' = Void("updateShapePaths")
               /\ UNCHANGED <<nextId, dragStateRef, room, clients, ui>>

\* #updateShapes calls the updater on value.shapes[id] for every id before it looks at
\* the result; for an id that names no shape the updater reads shape.paths of undefined
\* and the call ends in a TypeError, before the history or the store is touched.
UpdateShapePaths(ids, attributes) ==
    LET previousValue == state.value
    IN IF \E i \in 1..Len(ids) : ~Has(previousValue.shapes, ids[i])
       THEN NoOp(TypeError("updateShapePaths"))
       ELSE LET entries == [id \in SeqToSet(ids) |->
                               UpdatedShape(previousValue.shapes[id], attributes)]
                nextValue == [previousValue EXCEPT
                                !.shapes = Merge(previousValue.shapes, entries)]
            IN /\ Historied(BaseCommand(previousValue, nextValue, PathOperation(attributes)),
                            EmptyObj, TRUE, Void("updateShapePaths"))
               /\ UNCHANGED nextId

\* mutant: loadDesign resets the store but keeps the HistoryManager
LoadDesign_keepHistory(value) ==
    /\ nCalls < MaxCalls
    /\ nCalls' = nCalls + 1
    /\ state' = setState(state, [value |-> value, selection |-> NoSelection,
                                 canUndo |-> FALSE, canRedo |-> FALSE])
    /\ notified' = <<state'>>
    /\ ret' = Void("loadDesign")
    /\ UNCHANGED <<history, currentIndex, nextId, nCmd, dragStateRef, room, clients, ui>>

LoadDesign(value) ==
    /\ nCalls < MaxCalls
    /\ nCalls' = nCalls + 1
    /\ history' = <<>>
    /\ currentIndex' = -1
    /\ state' = setState(state, [value |-> value, selection |-> NoSelection,
                                 canUndo |-> FALSE, canRedo |-> FALSE])
    /\ notified' = <<state'>>
    /\ ret' = Void("loadDesign")
    /\ UNCHANGED <<nextId, nCmd, dragStateRef, room, clients, ui>>

\* mutant: updateDesignData also clears the selection
UpdateDesignData_resetSelection(value) ==
    Direct(Merge(state, [value |-> cleanUndefinedValues(value), selection |-> NoSelection]),
           Void("updateDesignData"))

UpdateDesignData(value) ==
    Direct(Merge(state, [value |-> cleanUndefinedValues(value)]), Void("updateDesignData"))

\* the shapes a resize or drag hands to replaceShapes: a shape of the document, moved
MovedShapes ==
    { <<Merge(state.value.shapes[id], [bounds |-> b])>> :
        id \in DOMAIN state.value.shapes, b \in BoundsInputs }

Next ==
    \/ \E s \in {NoSelection} \cup Ids : SetSelection(s)
    \/ \E v \in ImportedDocs : LoadDesign(v)
    \/ \E v \in RemoteDocs : UpdateDesignData(v)
    \/ Undo
    \/ Redo
    \/ \E p \in ShapePayloads : CreateShape(p)
    \/ \E p \in TextPayloads : CreateText(p)
    \/ \E p \in ImagePayloads : CreateImage(p)
    \/ \E id \in Ids, c \in Contents : UpdateTextContent(id, c)
    \/ \E id \in Ids, st \in TextStyles : UpdateTextStyle(id, st)
    \/ \E id \in Ids, pos \in Positions : UpdateTextPosition(id, pos)
    \/ \E id \in Ids, pos \in Positions : UpdateImagePosition(id, pos)
    \/ \E id \in Ids, b \in BoundsInputs : UpdateImageBounds(id, b)
    \/ \E id \in Ids, o \in Opacities : UpdateImageOpacity(id, o)
    \/ \E ids \in IdLists, a \in ShapeAttributes : UpdateShapeAttributes(ids, a)
    \/ \E shapes \in MovedShapes : ReplaceShapes(shapes)
    \/ \E ids \in IdLists, a \in PathAttributes : UpdateShapePaths(ids, a)
    \/ \E ids \in IdLists : DeleteShapes(ids)
    \/ \E ids \in IdLists : DeleteTexts(ids)
    \/ \E ids \in IdLists : DeleteImages(ids)

Spec == Init /\ [][Next]_vars

(***************************************************************************)
(* Properties                                                              *)
(***************************************************************************)
\* ids of all entities of a document
Entities(doc) == DOMAIN doc.shapes \cup DOMAIN doc.texts \cup DOMAIN doc.images

\* this step constructed a Command and handed it to executeCommand
ExecutedCommand == nCmd' = nCmd + 1

\* number of consecutive calls of HistoryManager.undo that succeed from cursor i
RECURSIVE SuccessfulUndos(_, _)
SuccessfulUndos(h, i) ==
    LET r == hmUndo(h, i)
    IN IF r.isNull \/ i < -1 THEN 0 ELSE 1 + SuccessfulUndos(h, r.currentIndex)

\* C1: after every historied operation that took the store document from D to D', an
\* immediate undo() sets the store document to D and a redo() right after that undo
\* sets it to D'.
C1_UndoRedoRoundTrip ==
    [][ExecutedCommand =>
          LET u == undoOutcome(state', history', currentIndex')
              r == redoOutcome(u.state, history', u.currentIndex)
          IN /\ u.state.value = state.value
             /\ r.state.value = state'.value]_vars

\* C2: branch invalidation.  A command executed while a redo branch exists (the cursor
\* is before the end of the list) leaves canRedo false and redo() a no-op, the document
\* is that command's result, the list is the commands up to the old cursor followed by
\* the new one, and none of the discarded commands is in it; a command enters the list
\* only when it is constructed, and undo/redo never change the list, so a discarded
\* command is never reached again.
C2_BranchInvalidation ==
    [][/\ (ExecutedCommand /\ canRedoAt(history, currentIndex)) =>
            LET new == history'[Len(history')]
                o   == redoOutcome(state', history', currentIndex')
            IN /\ ~state'.canRedo
               /\ ~canRedoAt(history', currentIndex')
               /\ o.state = state' /\ o.currentIndex = currentIndex' /\ o.notified = <<>>
               /\ new.serial = nCmd + 1
               /\ state'.value \in {new.nextValue, cleanUndefinedValues(new.nextValue)}
               /\ Len(history') = currentIndex + 2
               /\ currentIndex' = currentIndex + 1
               /\ \A j \in 1..(currentIndex + 1) : history'[j] = history[j]
               /\ \A k \in (currentIndex + 2)..Len(history) :
                     \A j \in 1..Len(history') : history'[j].serial # history[k].serial
       /\ \A j \in 1..Len(history') :
             \/ (ExecutedCommand /\ history'[j].serial = nCmd + 1)
             \/ \E k \in 1..Len(history) : history[k] = history'[j]
       /\ (ret'.op \in {"undo", "redo"}) => history' = history]_vars

\* C2 witness: with capacity 2, commands 1 and 2 were executed, one was undone and
\* command 3 replaced command 2
C2_Witness ==
    /\ nCmd = 3
    /\ Len(history) = 2
    /\ history[1].serial = 1
    /\ history[2].serial = 3
    /\ currentIndex = 1
    /\ ~state.canRedo

\* C3: the history never holds more than maxHistorySize commands; a command executed
\* when the list is full with the cursor at its end evicts the oldest command: the list
\* keeps maxHistorySize commands, the cursor points at the new (last) one, exactly
\* maxHistorySize consecutive undos succeed and the next returns null, and the evicted
\* command, the only one holding the document before it, is no longer in the list.
C3_Capacity ==
    /\ [](Len(history) <= maxHistorySize)
    /\ [][(/\ ExecutedCommand
           /\ Len(history) = maxHistorySize
           /\ currentIndex = maxHistorySize - 1) =>
             /\ Len(history') = maxHistorySize
             /\ currentIndex' = maxHistorySize - 1
             /\ history'[maxHistorySize].serial = nCmd + 1
             /\ \A j \in 1..(maxHistorySize - 1) : history'[j] = history[j + 1]
             /\ \A j \in 1..Len(history') : history'[j].serial # history[1].serial
             /\ SuccessfulUndos(history', currentIndex') = maxHistorySize
             /\ hmUndo(history', -1).isNull]_vars

\* C3 witness: maxHistorySize + 1 commands were executed in a row, the first is gone
C3_Witness ==
    /\ nCmd = maxHistorySize + 1
    /\ Len(history) = maxHistorySize
    /\ history[1].serial = 2
    /\ history[maxHistorySize].serial = maxHistorySize + 1
    /\ currentIndex = maxHistorySize - 1

\* C4: style memory round trip.  On a shape whose stroke was disabled (no path has a
\* stroke, rememberedStroke holds the stroke last active), updateShapePaths with a stroke
\* request that supplies neither color nor weight gives every path the remembered stroke.
C4_StrokeRoundTrip ==
    [][\A id \in Ids :
          (/\ Has(state.value.shapes, id)
           /\ Has(state.value.shapes[id], "rememberedStroke")
           /\ \A i \in 1..Len(state.value.shapes[id].paths) :
                 ~Has(state.value.shapes[id].paths[i], "stroke")
           /\ UpdateShapePaths(<<id>>, [stroke |-> EmptyObj])) =>
             \A i \in 1..Len(state'.value.shapes[id].paths) :
                /\ Has(state'.value.shapes[id].paths[i], "stroke")
                /\ state'.value.shapes[id].paths[i].stroke =
                      state.value.shapes[id].rememberedStroke]_vars

\* C5: a delete call that removes the selected entity leaves the selection null, and no
\* store state it delivers to subscribers has the entity gone while still selected.
C5_DeleteClearsSelection ==
    [][(/\ ret'.op \in {"deleteShapes", "deleteTexts", "deleteImages"}
        /\ state.selection # NoSelection
        /\ state.selection \in Entities(state.value)
        /\ state.selection \notin Entities(state'.value)) =>
          /\ state'.selection = NoSelection
          /\ Len(notified') > 0
          /\ \A i \in 1..Len(notified') :
                ~(/\ notified'[i].selection = state.selection
                  /\ state.selection \notin Entities(notified'[i].value))]_vars

\* C5 witness: a delete removed an entity and the selection is null
C5_Witness ==
    /\ ret.op \in {"deleteShapes", "deleteTexts", "deleteImages"}
    /\ Len(ret.ids) > 0
    /\ Len(notified) = 2
    /\ currentIndex >= 0
    /\ history[currentIndex + 1].previousValue # history[currentIndex + 1].nextValue
    /\ \A i \in 1..Len(ret.ids) : ret.ids[i] \notin Entities(state.value)
    /\ state.selection = NoSelection

\* the call of this step raised no error and left document, selection, canUndo/canRedo
\* and the history as they were
Benign ==
    /\ ret'.kind # "TypeError"
    /\ UNCHANGED <<state, history, currentIndex>>

\* C6: benign absence.  Every update or delete called with an id that is not in the
\* targeted collection raises no error and leaves document, selection and history
\* unchanged.
C6_BenignAbsence ==
    [][\A id \in Ids :
          /\ ~Has(state.value.shapes, id) =>
                /\ \A a \in PathAttributes : UpdateShapePaths(<<id>>, a) => Benign
                /\ \A a \in ShapeAttributes : UpdateShapeAttributes(<<id>>, a) => Benign
                /\ DeleteShapes(<<id>>) => Benign
          /\ ~Has(state.value.texts, id) =>
                /\ \A c \in Contents : UpdateTextContent(id, c) => Benign
                /\ \A st \in TextStyles : UpdateTextStyle(id, st) => Benign
                /\ \A pos \in Positions : UpdateTextPosition(id, pos) => Benign
                /\ DeleteTexts(<<id>>) => Benign
          /\ ~Has(state.value.images, id) =>
                /\ \A pos \in Positions : UpdateImagePosition(id, pos) => Benign
                /\ \A b \in BoundsInputs : UpdateImageBounds(id, b) => Benign
                /\ \A o \in Opacities : UpdateImageOpacity(id, o) => Benign
                /\ DeleteImages(<<id>>) => Benign]_vars

\* C7: undo() with nothing to undo and redo() with nothing to redo get the null sentinel,
\* raise nothing, deliver nothing and leave the list, the cursor and the store (document,
\* selection, canUndo, canRedo) unchanged.
C7_HistoryBoundary ==
    [][/\ (ret'.op = "undo" /\ currentIndex = -1) =>
             /\ hmUndo(history, currentIndex).isNull
             /\ ret'.kind = "void"
             /\ notified' = <<>>
             /\ UNCHANGED <<state, history, currentIndex>>
       /\ (ret'.op = "redo" /\ currentIndex = Len(history) - 1) =>
             /\ hmRedo(history, currentIndex).isNull
             /\ ret'.kind = "void"
             /\ notified' = <<>>
             /\ UNCHANGED <<state, history, currentIndex>>]_vars

\* C7 witness: undo was called on a non-empty history with the cursor before its start
C7_Witness ==
    /\ ret.op = "undo"
    /\ notified = <<>>
    /\ currentIndex = -1
    /\ Len(history) > 0
    /\ ~state.canUndo

\* C8: the cursor stays within -1 .. length-1; undo succeeds exactly when the cursor is
\* >= 0 and redo exactly when it is < length-1; a successful undo moves the cursor down
\* by one, a successful redo up by one, and neither changes the list.
C8_HistoryStateMachine ==
    /\ [](/\ -1 <= currentIndex
          /\ currentIndex <= Len(history) - 1
          /\ hmUndo(history, currentIndex).isNull <=> ~(currentIndex >= 0)
          /\ hmRedo(history, currentIndex).isNull <=> ~(currentIndex < Len(history) - 1))
    /\ [][/\ (ret'.op = "undo" /\ currentIndex >= 0) =>
                (currentIndex' = currentIndex - 1 /\ history' = history)
          /\ (ret'.op = "redo" /\ currentIndex < Len(history) - 1) =>
                (currentIndex' = currentIndex + 1 /\ history' = history)]_vars

\* C8 witness: an undo succeeded in the middle of a history of two commands
C8_Witness ==
    /\ ret.op = "undo"
    /\ Len(notified) = 2
    /\ Len(history) = 2
    /\ currentIndex = 0

\* C9: a public operation replaces the store state in a single step, and in every state
\* delivered to a subscriber canUndo and canRedo agree with the HistoryManager.
C9_AtomicStore ==
    /\ Len(notified) <= 1
    /\ \A i \in 1..Len(notified) :
          /\ notified[i].canUndo = canUndoAt(currentIndex)
          /\ notified[i].canRedo = canRedoAt(history, currentIndex)

\* C10: every successful discrete edit of an existing entity (stroke/fill, text content,
\* text style, shape transparency, image opacity) appends one Command, canUndo is true
\* afterwards and an immediate undo restores the document as it was before the edit.
C10_DiscreteEditsHistoried ==
    [][(\/ (/\ ret'.op \in {"updateShapePaths", "updateTextContent", "updateTextStyle",
                           "updateImageOpacity"}
            /\ notified' # <<>>)
        \/ (/\ ret'.op = "updateShapeAttributes"
            /\ SeqToSet(ret'.ids) \cap DOMAIN state.value.shapes # {})) =>
          /\ ExecutedCommand
          /\ currentIndex' >= 0
          /\ history'[currentIndex' + 1].serial = nCmd + 1
          /\ state'.canUndo
          /\ undoOutcome(state', history', currentIndex').state.value = state.value]_vars

\* the direct position/bounds updates
DirectUpdateOps ==
    {"replaceShapes", "updateTextPosition", "updateImagePosition", "updateImageBounds"}

\* C11: replaceShapes, updateTextPosition, updateImagePosition and updateImageBounds
\* change nothing but the store document: the history list, the cursor, canUndo,
\* canRedo and the selection are as before the call, no Command is constructed, and a
\* redo that was available before the call is available after it with the same result.
C11_DirectUpdatesBypassHistory ==
    [][(ret'.op \in DirectUpdateOps) =>
          /\ history' = history
          /\ currentIndex' = currentIndex
          /\ nCmd' = nCmd
          /\ state'.canUndo = state.canUndo
          /\ state'.canRedo = state.canRedo
          /\ state'.selection = state.selection
          /\ canRedoAt(history, currentIndex) =>
                /\ canRedoAt(history', currentIndex')
                /\ ~hmRedo(history', currentIndex').isNull
                /\ redoOutcome(state', history', currentIndex').state.value =
                      redoOutcome(state, history, currentIndex).state.value]_vars

\* C11 witness: an image was moved while a redo branch existed, and the branch is there
C11_Witness ==
    /\ ret.op = "updateImagePosition"
    /\ Len(notified) = 1
    /\ state.canRedo
    /\ canRedoAt(history, currentIndex)
    /\ \E id \in DOMAIN state.value.images :
          /\ state.value.images[id].bounds.left = 30
          /\ state.value.images[id].bounds.top = 40

Collections == {"shapes", "texts", "images"}

\* the collection a create operation adds to
CreatedIn(op) ==
    CASE op = "createShape" -> "shapes"
      [] op = "createText" -> "texts"
      [] op = "createImage" -> "images"

\* C12: a createShape/createText/createImage call returns an id that was in no
\* collection before; afterwards an entity with that id is in the matching collection
\* and in no other, every entity that existed before is unchanged, the selection is that
\* id, one new Command ends the history with the cursor on it, canUndo is true and
\* canRedo is false.
C12_CreateContract ==
    [][(ret'.op \in {"createShape", "createText", "createImage"}) =>
          LET id   == ret'.ids[1]
              coll == CreatedIn(ret'.op)
          IN /\ ret'.kind = "id"
             /\ id \notin Entities(state.value)
             /\ DOMAIN state'.value[coll] = DOMAIN state.value[coll] \cup {id}
             /\ state'.value[coll][id].id = id
             /\ \A c \in Collections \ {coll} : id \notin DOMAIN state'.value[c]
             /\ \A c \in Collections :
                   /\ DOMAIN state.value[c] \subseteq DOMAIN state'.value[c]
                   /\ DOMAIN state'.value[c] \subseteq DOMAIN state.value[c] \cup {id}
                   /\ \A e \in DOMAIN state.value[c] : state'.value[c][e] = state.value[c][e]
             /\ state'.value.attributes = state.value.attributes
             /\ state'.selection = id
             /\ nCmd' = nCmd + 1
             /\ history'[Len(history')].serial = nCmd + 1
             /\ history'[Len(history')].previousValue = state.value
             /\ history'[Len(history')].nextValue = state'.value
             /\ currentIndex' = Len(history') - 1
             /\ \A j \in 1..(Len(history') - 1) : history'[j].serial <= nCmd
             /\ state'.canUndo
             /\ ~state'.canRedo]_vars

\* C12 witness: an image was created next to an entity that existed before
C12_Witness ==
    /\ ret.op = "createImage"
    /\ ret.kind = "id"
    /\ state.selection = ret.ids[1]
    /\ ret.ids[1] \in DOMAIN state.value.images
    /\ Entities(state.value) \ {ret.ids[1]} # {}
    /\ state.canUndo
    /\ ~state.canRedo

(****************** create placement: its own specification *******************)
\* positions handed to createShape / createImage: left and top each omitted, 0 or not 0
PlacementInputs ==
    {EmptyObj} \cup {[left |-> l] : l \in {0, 30}} \cup {[top |-> t] : t \in {0, 40}}
      \cup {[left |-> l, top |-> t] : l \in {0, 30}, t \in {0, 40}}

PlacementShapePayloads ==
    {Merge(Without(p, {"left", "top"}), pos) : p \in ShapePayloads, pos \in PlacementInputs}

PlacementImagePayloads ==
    {Merge(Without(p, {"left", "top"}), pos) : p \in ImagePayloads, pos \in PlacementInputs}

NextPlacement ==
    \/ \E p \in PlacementShapePayloads : CreateShape(p)
    \/ \E p \in PlacementImagePayloads : CreateImage(p)
    \/ Undo
    \/ Redo

SpecPlacement == Init /\ [][NextPlacement]_vars

\* the bounds.left and bounds.top the placement rule asks for: the supplied value, or the
\* centre of the canvas when it is omitted
PlacedAt(payload, value, k, canvas, size) ==
    IF Has(payload, k) THEN payload[k]
    ELSE value.attributes[canvas] \div 2 - payload[size] \div 2

\* C13: createShape and createImage put the new entity at the supplied left (top), for
\* every supplied value, and at attributes.width/2 - width/2 (attributes.height/2 -
\* height/2) when left (top) is omitted.
C13_CreatePlacement ==
    [][/\ \A p \in PlacementShapePayloads :
             CreateShape(p) =>
                LET b == state'.value.shapes[ret'.ids[1]].bounds
                IN /\ b.left = PlacedAt(p, state.value, "left", "width", "width")
                   /\ b.top = PlacedAt(p, state.value, "top", "height", "height")
       /\ \A p \in PlacementImagePayloads :
             CreateImage(p) =>
                LET b == state'.value.images[ret'.ids[1]].bounds
                IN /\ b.left = PlacedAt(p, state.value, "left", "width", "width")
                   /\ b.top = PlacedAt(p, state.value, "top", "height", "height")]_vars

\* what the delete contract asks of a delete of nodeIds from collection coll
DeleteContract(coll, nodeIds) ==
    LET present == SeqToSet(nodeIds) \cap DOMAIN state.value[coll]
    IN IF present = {}
       THEN /\ ret'.ids = <<>>
            /\ notified' = <<>>
            /\ nCmd' = nCmd
            /\ UNCHANGED <<state, history, currentIndex>>
       ELSE /\ SeqToSet(ret'.ids) = present
            /\ Len(ret'.ids) = Cardinality(present)
            /\ DOMAIN state'.value[coll] = DOMAIN state.value[coll] \ present
            /\ \A c \in Collections \ {coll} : DOMAIN state'.value[c] = DOMAIN state.value[c]
            /\ \A c \in Collections :
                  \A e \in DOMAIN state'.value[c] : state'.value[c][e] = state.value[c][e]
            /\ state'.value.attributes = state.value.attributes
            /\ nCmd' = nCmd + 1
            /\ history'[Len(history')].serial = nCmd + 1
            /\ history'[Len(history')].description = "Delete shape"
            /\ history'[Len(history')].previousValue = state.value
            /\ history'[Len(history')].nextValue = state'.value
            /\ currentIndex' = Len(history') - 1
            /\ \A j \in 1..(Len(history') - 1) : history'[j].serial <= nCmd

\* C14: deleteShapes/deleteTexts/deleteImages with a list of ids, repeated and absent ones
\* included, removes exactly the requested ids present in that collection, returns them
\* without repetition, leaves every other entity unchanged and appends one delete
\* Command; when no id is present it returns the empty list and leaves document,
\* selection, history and canUndo/canRedo unchanged.
C14_DeleteContract ==
    [][/\ ret'.op = "deleteShapes" =>
             \A ids \in IdLists : DeleteShapes(ids) => DeleteContract("shapes", ids)
       /\ ret'.op = "deleteTexts" =>
             \A ids \in IdLists : DeleteTexts(ids) => DeleteContract("texts", ids)
       /\ ret'.op = "deleteImages" =>
             \A ids \in IdLists : DeleteImages(ids) => DeleteContract("images", ids)]_vars

\* C14 witness: shape 1 was deleted and the text 2 next to it is still there
C14_Witness ==
    /\ ret.op = "deleteShapes"
    /\ ret.ids = <<1>>
    /\ Len(notified) = 2
    /\ DOMAIN state.value.shapes = {}
    /\ DOMAIN state.value.texts = {2}
    /\ history[currentIndex + 1].description = "Delete shape"
    /\ history[currentIndex + 1].previousValue.texts[2] = state.value.texts[2]

\* C15: loadDesign(V) is a full reset from any state: the store document is V, the
\* selection is null, canUndo and canRedo are false, undo() and redo() find nothing and
\* change nothing, and the history holds no command, so no earlier document can be
\* reached through it.
C15_LoadDesignResets ==
    [][\A v \in ImportedDocs :
          (ret'.op = "loadDesign" /\ LoadDesign(v)) =>
             LET u == undoOutcome(state', history', currentIndex')
                 r == redoOutcome(state', history', currentIndex')
             IN /\ state'.value = v
                /\ state'.selection = NoSelection
                /\ ~state'.canUndo
                /\ ~state'.canRedo
                /\ history' = <<>>
                /\ hmUndo(history', currentIndex').isNull
                /\ hmRedo(history', currentIndex').isNull
                /\ u.state = state' /\ u.currentIndex = currentIndex' /\ u.notified = <<>>
                /\ r.state = state' /\ r.currentIndex = currentIndex' /\ r.notified = <<>>]_vars

\* C15 witness: a design was loaded after two commands had been executed
C15_Witness ==
    /\ ret.op = "loadDesign"
    /\ nCmd = 2
    /\ nCalls = 3
    /\ state.value \in ImportedDocs
    /\ history = <<>>
    /\ ~state.canUndo

\* the keys of an entity that hold a value other than undefined
PresentKeys(obj) == {k \in DOMAIN obj : ~(k \in StringKeys /\ obj[k] = Undefined)}

\* C16: updateDesignData(V) replaces the document only: the store document is V without
\* its undefined-valued fields, and the selection, the history list, the cursor, canUndo
\* and canRedo are as before the call.
C16_UpdateDesignDataFrame ==
    [][\A v \in RemoteDocs :
          (ret'.op = "updateDesignData" /\ UpdateDesignData(v)) =>
             /\ state'.value.attributes = v.attributes
             /\ state'.value.shapes = v.shapes
             /\ state'.value.images = v.images
             /\ DOMAIN state'.value.texts = DOMAIN v.texts
             /\ \A id \in DOMAIN v.texts :
                   /\ DOMAIN state'.value.texts[id] = PresentKeys(v.texts[id])
                   /\ \A k \in PresentKeys(v.texts[id]) :
                         state'.value.texts[id][k] = v.texts[id][k]
             /\ state'.selection = state.selection
             /\ state'.canUndo = state.canUndo
             /\ state'.canRedo = state.canRedo
             /\ history' = history
             /\ currentIndex' = currentIndex
             /\ nCmd' = nCmd]_vars

\* C16 witness: a remote document with an undefined color arrived while an entity was
\* selected and a redo branch existed
C16_Witness ==
    /\ ret.op = "updateDesignData"
    /\ state.selection # NoSelection
    /\ state.canRedo
    /\ canRedoAt(history, currentIndex)
    /\ RemoteId \in DOMAIN state.value.texts
    /\ ~Has(state.value.texts[RemoteId], "color")

\* the collections of a document that hold id
HoldersOf(doc, id) == {c \in Collections : id \in DOMAIN doc[c]}

\* C17: an id is in at most one of shapes/texts/images, the entity stored under an id
\* carries that id, and the id a create call has just returned (and the selected id, when
\* its entity exists) resolves to exactly one entity.
C17_IdUniqueness ==
    /\ \A id \in Entities(state.value) : Cardinality(HoldersOf(state.value, id)) = 1
    /\ \A c \in Collections :
          \A id \in DOMAIN state.value[c] : state.value[c][id].id = id
    /\ ret.kind = "id" =>
          /\ Cardinality(HoldersOf(state.value, ret.ids[1])) = 1
          /\ ret.ids[1] = nextId
    /\ state.selection # NoSelection =>
          Cardinality(HoldersOf(state.value, state.selection)) <= 1
    /\ \A id \in Entities(state.value) : id <= nextId \/ id = RemoteId

\* C17 witness: a shape and a text exist side by side after an undo and a redo
C17_Witness ==
    /\ ret.op = "redo"
    /\ Len(notified) = 2
    /\ DOMAIN state.value.shapes = {1}
    /\ DOMAIN state.value.texts = {2}
    /\ nextId = 2

(****************** drag gesture: its own specification ***********************)
\* clientX, clientY of the pointer-move events
PointerPositions == {[x |-> 0, y |-> 0], [x |-> 10, y |-> 5]}

\* clientX, clientY of the pointer-down events
DownPositions == {[x |-> 10, y |-> 5]}

\* event.buttons: 1 is the primary button alone, 0 none, 2 the secondary one
Buttons == {0, 1, 2}

DragShape ==
    [type |-> "shape", id |-> 1,
     bounds |-> [left |-> 350, top |-> 250, width |-> 100, height |-> 100],
     viewBox |-> UnitViewBox, paths |-> <<[d |-> "M0 0", stroke |-> RedStroke]>>]

DragImage ==
    [type |-> "image", id |-> 2,
     bounds |-> [left |-> 10, top |-> 20, width |-> 200, height |-> 100],
     src |-> "data:a", opacity |-> 100]

DragText == Merge(RemoteText, [color |-> "#000000"])

\* the document the editor of this specification is constructed with
DragDocument ==
    [DEFAULT_EDITOR_VALUE EXCEPT !.shapes = Put(EmptyObj, DragShape.id, DragShape),
                                 !.images = Put(EmptyObj, DragImage.id, DragImage),
                                 !.texts = Put(EmptyObj, DragText.id, DragText)]

InitDrag ==
    /\ state = [value |-> DragDocument, selection |-> NoSelection,
                canUndo |-> FALSE, canRedo |-> FALSE]
    /\ history = <<>>
    /\ currentIndex = -1
    /\ nextId = 0
    /\ nCalls = 0
    /\ nCmd = 0
    /\ ret = Void("constructor")
    /\ notified = <<>>
    /\ dragStateRef = Null
    /\ room = Null
    /\ clients = [userId \in UserIds |-> NewClient]
    /\ optimizing = Null
    /\ dragTimeoutRef = Null
    /\ pointer = PointerAtRest

\* the elements DesignView renders, each with its pointer-down handler
Elements(value) ==
    UNION {{value[c][id] : id \in DOMAIN value[c]} : c \in Collections}

\* mutant: ending a drag keeps the session
onDragEnd_keepsSession(ref) == ref

\* useDragGesture onDragEnd (DesignView passes no onEnd): the ref afterwards
onDragEnd(ref) == Null

\* useDragGesture onDragStart: the ref afterwards
onDragStart(ref, pos, buttons, snapshot) ==
    IF buttons # 1 THEN ref
    ELSE [startX |-> pos.x, startY |-> pos.y, snapshot |-> snapshot]

\* a handler that calls nothing of the editor
Handled(op) ==
    /\ ret' = Void(op)
    /\ notified' = <<>>
    /\ UNCHANGED <<state, history, currentIndex, nextId, nCalls, nCmd, room, clients, ui>>

\* onPointerDown of a rendered element: select it, then onDragStart with the element as
\* snapshot (for a text onDragStart runs from a 250 ms timer with the same arguments)
PointerDownOnElement(element, pos, buttons) ==
    /\ state' = setState(state, [selection |-> element.id])
    /\ notified' = <<state'>>
    /\ ret' = Void("onDragStart")
    /\ dragStateRef' = onDragStart(dragStateRef, pos, buttons, element)
    /\ UNCHANGED <<history, currentIndex, nextId, nCalls, nCmd, room, clients, ui>>

\* mutant: the delta is applied to the element as it is in the store, not to the snapshot
onMove_fromLive(deltaX, deltaY, snapshot) ==
    LET coll == CASE snapshot.type = "shape" -> "shapes"
                  [] snapshot.type = "text" -> "texts"
                  [] snapshot.type = "image" -> "images"
        live == IF Has(state.value[coll], snapshot.id) THEN state.value[coll][snapshot.id]
                ELSE snapshot
        pos  == [left |-> live.bounds.left + deltaX, top |-> live.bounds.top + deltaY]
    IN CASE snapshot.type = "shape" ->
              ReplaceShapes(<<Merge(live, [bounds |-> Merge(live.bounds, pos)])>>)
         [] snapshot.type = "text" -> UpdateTextPosition(snapshot.id, pos)
         [] snapshot.type = "image" -> UpdateImagePosition(snapshot.id, pos)

\* DesignView's onMove
onMove(deltaX, deltaY, snapshot) ==
    LET pos == [left |-> snapshot.bounds.left + deltaX, top |-> snapshot.bounds.top + deltaY]
        updatedElement == Merge(snapshot, [bounds |-> Merge(snapshot.bounds, pos)])
    IN CASE snapshot.type = "shape" -> ReplaceShapes(<<updatedElement>>)
         [] snapshot.type = "text" -> UpdateTextPosition(snapshot.id, pos)
         [] snapshot.type = "image" -> UpdateImagePosition(snapshot.id, pos)

\* useDragGesture onPointerMove
OnPointerMove(pos, buttons) ==
    IF dragStateRef = Null
    THEN Handled("onPointerMove") /\ UNCHANGED dragStateRef
    ELSE IF buttons # 1
         THEN Handled("onPointerMove") /\ dragStateRef' = onDragEnd(dragStateRef)
         ELSE onMove(pos.x - dragStateRef.startX, pos.y - dragStateRef.startY,
                     dragStateRef.snapshot)

\* useDragGesture onLostPointerCapture
OnLostPointerCapture ==
    /\ Handled("onLostPointerCapture")
    /\ dragStateRef' = onDragEnd(dragStateRef)

NextDrag ==
    \/ \E e \in Elements(state.value), pos \in DownPositions, b \in Buttons :
          PointerDownOnElement(e, pos, b)
    \/ \E pos \in PointerPositions, b \in Buttons : OnPointerMove(pos, b)
    \/ OnLostPointerCapture
    \/ DeleteShapes(<<DragShape.id>>)
    \/ DeleteTexts(<<DragText.id>>)
    \/ DeleteImages(<<DragImage.id>>)
    \/ Undo
    \/ Redo

SpecDrag == InitDrag /\ [][NextDrag]_vars

\* the collection an element belongs to
CollectionOf(element) ==
    CASE element.type = "shape" -> "shapes"
      [] element.type = "text" -> "texts"
      [] element.type = "image" -> "images"

\* the store document after DesignView's onMove on document value: replaceShapes stores
\* the moved snapshot, updateTextPosition / updateImagePosition move the stored element
\* and do nothing when it is gone
movedDocument(value, snapshot, deltaX, deltaY) ==
    LET coll == CollectionOf(snapshot)
        pos  == [left |-> snapshot.bounds.left + deltaX, top |-> snapshot.bounds.top + deltaY]
    IN IF snapshot.type = "shape"
       THEN cleanUndefinedValues([value EXCEPT !.shapes =
               Put(value.shapes, snapshot.id,
                   Merge(snapshot, [bounds |-> Merge(snapshot.bounds, pos)]))])
       ELSE IF ~Has(value[coll], snapshot.id) THEN value
       ELSE cleanUndefinedValues([value EXCEPT ![coll] =
               Put(value[coll], snapshot.id,
                   Merge(value[coll][snapshot.id],
                         [bounds |-> Merge(value[coll][snapshot.id].bounds, pos)]))])

\* C18: in a drag session started at (startX, startY) with snapshot S, a move event at
\* (x, y) with the primary button held leaves the dragged element at S.bounds.left +
\* (x - startX), S.bounds.top + (y - startY), whatever moves were delivered before, and
\* delivering the same event again leaves the document as it is.
C18_DragFromSnapshot ==
    [][\A pos \in PointerPositions :
          (dragStateRef # Null /\ OnPointerMove(pos, 1)) =>
             LET S    == dragStateRef.snapshot
                 dx   == pos.x - dragStateRef.startX
                 dy   == pos.y - dragStateRef.startY
                 coll == CollectionOf(S)
             IN /\ dragStateRef' = dragStateRef
                /\ state'.value = movedDocument(state.value, S, dx, dy)
                /\ movedDocument(state'.value, S, dx, dy) = state'.value
                /\ Has(state.value[coll], S.id) => Has(state'.value[coll], S.id)
                /\ Has(state'.value[coll], S.id) =>
                      /\ state'.value[coll][S.id].bounds.left = S.bounds.left + dx
                      /\ state'.value[coll][S.id].bounds.top = S.bounds.top + dy]_vars

\* C18 witness: three moves were delivered to the shape, the last one at (-10, -5) from
\* the start of the session
C18_Witness ==
    /\ dragStateRef # Null
    /\ dragStateRef.snapshot = DragShape
    /\ ret.op = "replaceShapes"
    /\ nCalls = 3
    /\ nCmd = 0
    /\ state.value.images = DragDocument.images
    /\ state.value.texts = DragDocument.texts
    /\ state.value.shapes[DragShape.id].bounds.left = DragShape.bounds.left - 10
    /\ state.value.shapes[DragShape.id].bounds.top = DragShape.bounds.top - 5

\* C19: the end of a drag session (lost pointer capture, or a move event whose buttons
\* is not 1) changes nothing of the store or the history and leaves no session; a
\* pointer-move without a session changes nothing either, and a session begins only in
\* onDragStart.
C19_DragEndMutatesNothing ==
    [][/\ OnLostPointerCapture =>
             (dragStateRef' = Null /\ UNCHANGED <<state, history, currentIndex>>)
       /\ \A pos \in PointerPositions, b \in Buttons :
             ((b # 1 \/ dragStateRef = Null) /\ OnPointerMove(pos, b)) =>
                (dragStateRef' = Null /\ UNCHANGED <<state, history, currentIndex>>)
       /\ (dragStateRef = Null /\ dragStateRef' # Null) => ret'.op = "onDragStart"]_vars

\* C19 witness: the shape was moved once, then the pointer capture was lost
C19_Witness ==
    /\ ret.op = "onLostPointerCapture"
    /\ dragStateRef = Null
    /\ nCalls = 1
    /\ nCmd = 0
    /\ state.value.shapes[DragShape.id].bounds.left = DragShape.bounds.left - 10
    /\ state.value.shapes[DragShape.id].bounds.top = DragShape.bounds.top - 5

(****************** style memory: its own specification ***********************)
DashedStroke == [color |-> "#ff0000", weight |-> 5, dasharray |-> <<4, 2>>]

GreenStroke == [color |-> "#00ff00", weight |-> 2]

\* a shape whose first path has a dashed stroke
StyleShape1 ==
    [type |-> "shape", id |-> 1,
     bounds |-> [left |-> 350, top |-> 250, width |-> 100, height |-> 100],
     viewBox |-> UnitViewBox,
     paths |-> <<[d |-> "M0 0", stroke |-> DashedStroke], [d |-> "M1 1", stroke |-> RedStroke]>>]

\* a shape whose first path has no stroke, with a stroke remembered from earlier
StyleShape2 ==
    [type |-> "shape", id |-> 2,
     bounds |-> [left |-> 0, top |-> 0, width |-> 100, height |-> 100],
     viewBox |-> UnitViewBox,
     paths |-> <<[d |-> "M0 0", fill |-> [color |-> "#ffffff"]],
                 [d |-> "M1 1", stroke |-> RedStroke]>>,
     rememberedStroke |-> GreenStroke]

\* the document the editor of this specification is constructed with
StyleDocument ==
    [DEFAULT_EDITOR_VALUE EXCEPT
        !.shapes = Put(Put(EmptyObj, StyleShape1.id, StyleShape1), StyleShape2.id, StyleShape2)]

StyleIdLists == {<<StyleShape1.id>>, <<StyleShape2.id>>, <<StyleShape1.id, StyleShape2.id>>}

\* attribute requests of updateShapePaths
StyleAttributes ==
    { [stroke |-> Null],
      [stroke |-> EmptyObj],
      [stroke |-> DashedStroke],
      [fill |-> Null],
      [fill |-> [color |-> "#0000ff"]],
      [stroke |-> Null, fill |-> Null] }

InitStyle ==
    /\ state = [value |-> StyleDocument, selection |-> NoSelection,
                canUndo |-> FALSE, canRedo |-> FALSE]
    /\ history = <<>>
    /\ currentIndex = -1
    /\ nextId = 0
    /\ nCalls = 0
    /\ nCmd = 0
    /\ ret = Void("constructor")
    /\ notified = <<>>
    /\ dragStateRef = Null
    /\ room = Null
    /\ clients = [userId \in UserIds |-> NewClient]
    /\ optimizing = Null
    /\ dragTimeoutRef = Null
    /\ pointer = PointerAtRest

\* the right panel updates the selected shape alone
StyleTargets == {<<StyleShape1.id>>, <<StyleShape2.id>>}

NextStyle ==
    \E ids \in StyleTargets, a \in StyleAttributes : UpdateShapePaths(ids, a)

SpecStyle == InitStyle /\ [][NextStyle]_vars

\* C20: updateShapePaths with stroke explicit-null on a shape whose first path has stroke
\* s sets rememberedStroke to s and removes the stroke from every path; when the first
\* path has no stroke, rememberedStroke keeps its previous value.
C20_DisableStrokeRemembers ==
    [][\A id \in DOMAIN state.value.shapes :
          UpdateShapePaths(<<id>>, [stroke |-> Null]) =>
             LET before == state.value.shapes[id]
                 after  == state'.value.shapes[id]
             IN /\ \A i \in 1..Len(after.paths) : ~Has(after.paths[i], "stroke")
                /\ IF Len(before.paths) > 0 /\ Has(before.paths[1], "stroke")
                   THEN /\ Has(after, "rememberedStroke")
                        /\ after.rememberedStroke = before.paths[1].stroke
                   ELSE /\ Has(after, "rememberedStroke") <=> Has(before, "rememberedStroke")
                        /\ Has(before, "rememberedStroke") =>
                              after.rememberedStroke = before.rememberedStroke]_vars

\* C21: updateShapePaths with a stroke request p gives every path of the shape the stroke
\* made of the defaults {color #000000, weight 4} overridden by exactly the fields of p
\* (a dasharray only when p has one), and sets rememberedStroke to that same stroke.
C21_EnableStrokeMerges ==
    [][\A id \in DOMAIN state.value.shapes, a \in StyleAttributes :
          (/\ ret'.op = "updateShapePaths"
           /\ Has(a, "stroke")
           /\ a.stroke # Null
           /\ UpdateShapePaths(<<id>>, a)) =>
             LET s     == Merge(defaultStroke, a.stroke)
                 after == state'.value.shapes[id]
             IN /\ \A i \in 1..Len(after.paths) :
                      /\ Has(after.paths[i], "stroke")
                      /\ after.paths[i].stroke = s
                /\ Has(after, "rememberedStroke")
                /\ after.rememberedStroke = s]_vars

\* the fill updateShapePaths gives a path that would be left invisible
InjectedFill == [color |-> "#f8f9fa"]

\* whether the path has a stroke (k = "stroke") or a fill (k = "fill") once the request
\* is applied to it, the injection aside
HasOtherwise(path, attributes, k) ==
    IF Has(attributes, k) THEN attributes[k] # Null ELSE Has(path, k)

\* C22: after an updateShapePaths call a path has received the injected fill
\* {color #f8f9fa} exactly when the call disabled stroke (stroke explicit-null) and the
\* path would otherwise have neither stroke nor fill; a call that does not disable
\* stroke never injects a fill, also when it leaves a path with neither.
C22_DefaultFillInjection ==
    [][\A ids \in StyleTargets, a \in StyleAttributes :
          (ret'.op = "updateShapePaths" /\ UpdateShapePaths(ids, a)) =>
             \A id \in SeqToSet(ids) :
                \A i \in 1..Len(state.value.shapes[id].paths) :
                   LET before   == state.value.shapes[id].paths[i]
                       after    == state'.value.shapes[id].paths[i]
                       injected == Has(after, "fill") /\ ~HasOtherwise(before, a, "fill")
                   IN /\ injected <=> (/\ Has(a, "stroke")
                                       /\ a.stroke = Null
                                       /\ ~HasOtherwise(before, a, "stroke")
                                       /\ ~HasOtherwise(before, a, "fill"))
                      /\ injected => after.fill = InjectedFill
                      /\ ~injected =>
                            (Has(after, "fill") <=> HasOtherwise(before, a, "fill"))]_vars

\* C22 witness: disabling stroke on shape 1 gave its stroke-only paths the injected fill,
\* and disabling fill on shape 2 left its first path with neither stroke nor fill
C22_Witness ==
    /\ ret.op = "updateShapePaths"
    /\ ret.kind = "void"
    /\ \A i \in 1..Len(state.value.shapes[StyleShape1.id].paths) :
          /\ ~Has(state.value.shapes[StyleShape1.id].paths[i], "stroke")
          /\ Has(state.value.shapes[StyleShape1.id].paths[i], "fill")
          /\ state.value.shapes[StyleShape1.id].paths[i].fill = InjectedFill
    /\ ~Has(state.value.shapes[StyleShape2.id].paths[1], "stroke")
    /\ ~Has(state.value.shapes[StyleShape2.id].paths[1], "fill")

\* the same key with the same value, or the key absent in both
SameAt(f, g, k) == (Has(f, k) <=> Has(g, k)) /\ (Has(f, k) => f[k] = g[k])

\* what the fill rule asks of updateShapePaths(<<id>>, a).  With literal, a call with fill
\* explicit-null leaves no path with a fill; without it, the paths of a call that also
\* disables stroke hold the injected fill.
FillContract(id, a, literal) ==
    LET before == state.value.shapes[id]
        after  == state'.value.shapes[id]
        disablesStroke == Has(a, "stroke") /\ a.stroke = Null
    IN /\ Len(after.paths) = Len(before.paths)
       /\ IF ~Has(a, "fill")
          THEN /\ SameAt(before, after, "rememberedFill")
               /\ \A i \in 1..Len(before.paths) :
                     \/ SameAt(before.paths[i], after.paths[i], "fill")
                     \/ /\ disablesStroke
                        /\ ~Has(before.paths[i], "fill")
                        /\ Has(after.paths[i], "fill")
                        /\ after.paths[i].fill = InjectedFill
          ELSE IF a.fill = Null
          THEN /\ IF Len(before.paths) > 0 /\ Has(before.paths[1], "fill")
                  THEN /\ Has(after, "rememberedFill")
                       /\ after.rememberedFill = before.paths[1].fill
                  ELSE SameAt(before, after, "rememberedFill")
               /\ \A i \in 1..Len(after.paths) :
                     IF disablesStroke /\ ~literal
                     THEN Has(after.paths[i], "fill") /\ after.paths[i].fill = InjectedFill
                     ELSE ~Has(after.paths[i], "fill")
          ELSE /\ Has(after, "rememberedFill")
               /\ after.rememberedFill = a.fill
               /\ \A i \in 1..Len(after.paths) :
                     Has(after.paths[i], "fill") /\ after.paths[i].fill = a.fill

\* C23: updateShapePaths with fill explicit-null on a shape whose first path has fill f
\* sets rememberedFill to f (leaves it as it was when the first path has no fill) and
\* takes the fill off every path - each path then holding the injected fill when the same
\* call disables stroke as well; with a fill request f it sets rememberedFill and every
\* path's fill to f; a call without fill changes neither rememberedFill nor any path's
\* fill, the injection on stroke disable aside.
C23_FillMemory ==
    [][\A ids \in StyleTargets, a \in StyleAttributes :
          (ret'.op = "updateShapePaths" /\ UpdateShapePaths(ids, a)) =>
             FillContract(ids[1], a, FALSE)]_vars

\* C23 as stated: a call with fill explicit-null leaves no path with a fill, whatever
\* else the call asks for
C23_FillMemory_AsStated ==
    [][\A ids \in StyleTargets, a \in StyleAttributes :
          (ret'.op = "updateShapePaths" /\ UpdateShapePaths(ids, a)) =>
             FillContract(ids[1], a, TRUE)]_vars

\* C23 witness: fill was disabled on shape 2, whose first path had the fill #ffffff, then
\* enabled again with another colour on shape 1
C23_Witness ==
    /\ ret.op = "updateShapePaths"
    /\ ret.kind = "void"
    /\ Has(state.value.shapes[StyleShape2.id], "rememberedFill")
    /\ state.value.shapes[StyleShape2.id].rememberedFill = StyleShape2.paths[1].fill
    /\ \A i \in 1..Len(state.value.shapes[StyleShape2.id].paths) :
          ~Has(state.value.shapes[StyleShape2.id].paths[i], "fill")
    /\ Has(state.value.shapes[StyleShape1.id], "rememberedFill")
    /\ state.value.shapes[StyleShape1.id].rememberedFill = [color |-> "#0000ff"]
    /\ \A i \in 1..Len(state.value.shapes[StyleShape1.id].paths) :
          /\ Has(state.value.shapes[StyleShape1.id].paths[i], "fill")
          /\ state.value.shapes[StyleShape1.id].paths[i].fill = [color |-> "#0000ff"]

(****************** style edits and the history: its own specification ********)
\* id lists handed to updateShapePaths: no target, one, two
BatchIdLists == {<<>>} \cup StyleIdLists

\* attribute requests that change stroke, fill, or both
BatchAttributes ==
    { [stroke |-> Null],
      [fill |-> [color |-> "#0000ff"]],
      [stroke |-> Null, fill |-> Null] }

NextStyleHistory ==
    \/ \E ids \in BatchIdLists, a \in BatchAttributes : UpdateShapePaths(ids, a)
    \/ Undo
    \/ Redo

SpecStyleHistory == InitStyle /\ [][NextStyleHistory]_vars

JsUndefined == [t |-> "undefined"]

JsNull == [t |-> "null"]

JsNumber(n) == [t |-> "number", v |-> n]

JsArray(items) == [t |-> "array", e |-> items]

JsObject(fields) == [t |-> "object", f |-> fields]

\* mutant: the pass cleans the top-level object only
cleanUndefinedValuesAny_shallow(obj) ==
    IF obj.t = "object"
    THEN JsObject([k \in {x \in DOMAIN obj.f : obj.f[x] # JsUndefined} |-> obj.f[k]])
    ELSE obj

\* #cleanUndefinedValues on a value of any shape
RECURSIVE cleanUndefinedValuesAny(_)
cleanUndefinedValuesAny(obj) ==
    IF obj.t \notin {"array", "object"} THEN obj
    ELSE IF obj.t = "array"
    THEN JsArray([i \in 1..Len(obj.e) |-> cleanUndefinedValuesAny(obj.e[i])])
    ELSE JsObject([k \in {x \in DOMAIN obj.f : obj.f[x] # JsUndefined} |->
                      cleanUndefinedValuesAny(obj.f[k])])

\* updateDesignData on a value of any shape
UpdateDesignDataAny(value) ==
    Direct(Merge(state, [value |-> cleanUndefinedValuesAny(value)]), Void("updateDesignData"))

\* all objects with keys among keys and values among values
ObjectsOver(keys, values) ==
    UNION {{JsObject(fields) : fields \in [ks -> values]} : ks \in SUBSET keys}

Leaves == {JsUndefined, JsNull, JsNumber(1)}

\* objects of leaves, objects of such objects, and arrays: empty, of one leaf, of one
\* object with an undefined and a null field
NestedValues ==
    LET leafObjects == ObjectsOver({"x", "y"}, Leaves)
    IN Leaves \cup leafObjects \cup ObjectsOver({"x"}, leafObjects)
         \cup {JsArray(<<>>)} \cup {JsArray(<<v>>) : v \in Leaves}
         \cup {JsArray(<<JsObject([x |-> JsUndefined, y |-> JsNull])>>)}

\* the documents handed to updateDesignData: p of any nested shape or absent, q
\* undefined, null or absent
AnyDocs ==
    UNION {ObjectsOver({"p"}, NestedValues) \cup
              {JsObject(Put(d.f, "q", l)) : d \in ObjectsOver({"p"}, NestedValues)}
           : l \in {JsUndefined, JsNull}}

InitClean ==
    /\ state = [value |-> JsObject([attributes |->
                             JsObject([width |-> JsNumber(800), height |-> JsNumber(600)])]),
                selection |-> NoSelection, canUndo |-> FALSE, canRedo |-> FALSE]
    /\ history = <<>>
    /\ currentIndex = -1
    /\ nextId = 0
    /\ nCalls = 0
    /\ nCmd = 0
    /\ ret = Void("constructor")
    /\ notified = <<>>
    /\ dragStateRef = Null
    /\ room = Null
    /\ clients = [userId \in UserIds |-> NewClient]
    /\ optimizing = Null
    /\ dragTimeoutRef = Null
    /\ pointer = PointerAtRest

NextClean ==
    \/ \E v \in AnyDocs : UpdateDesignDataAny(v)
    \/ UpdateDesignDataAny(state.value)

SpecClean == InitClean /\ [][NextClean]_vars

\* out is in with every object field holding undefined removed, at every depth, and
\* everything else as it is
RECURSIVE IsNormalOf(_, _)
IsNormalOf(in, out) ==
    CASE in.t = "object" ->
            /\ out.t = "object"
            /\ DOMAIN out.f = {k \in DOMAIN in.f : in.f[k].t # "undefined"}
            /\ \A k \in DOMAIN out.f : IsNormalOf(in.f[k], out.f[k])
      [] in.t = "array" ->
            /\ out.t = "array"
            /\ Len(out.e) = Len(in.e)
            /\ \A i \in 1..Len(in.e) : IsNormalOf(in.e[i], out.e[i])
      [] OTHER -> out = in

\* no object inside v has a field holding undefined
RECURSIVE NoUndefinedField(_)
NoUndefinedField(v) ==
    CASE v.t = "object" ->
            \A k \in DOMAIN v.f : v.f[k].t # "undefined" /\ NoUndefinedField(v.f[k])
      [] v.t = "array" -> \A i \in 1..Len(v.e) : NoUndefinedField(v.e[i])
      [] OTHER -> TRUE

\* C26: for any document handed to updateDesignData, the stored document is that
\* document with every object field whose value is undefined removed at every nesting
\* depth and every other field and value, null included, preserved; the call raises
\* nothing, and the pass applied to the stored document gives the stored document.
C26_Normalization ==
    [][\A v \in AnyDocs \cup {state.value} :
          UpdateDesignDataAny(v) =>
             /\ ret'.kind = "void"
             /\ IsNormalOf(v, state'.value)
             /\ NoUndefinedField(state'.value)
             /\ cleanUndefinedValuesAny(state'.value) = state'.value
             /\ IsNormalOf(state'.value, state'.value)]_vars

\* C26 witness: the stored document came from {p: [{x: undefined, y: null}], q: null}:
\* the undefined field inside the array's object is gone, both nulls are kept
C26_Witness ==
    /\ ret.op = "updateDesignData"
    /\ state.value = JsObject([p |-> JsArray(<<JsObject([y |-> JsNull])>>), q |-> JsNull])

(****************** resize handles: its own specification *********************)
RESIZE_DIRECTIONS ==
    {"left", "right", "top", "bottom", "top-left", "top-right", "bottom-left", "bottom-right"}

\* math/resizeBounds with isRatioLocked false: an edge anchor changes one dimension and,
\* for left and top, the matching origin coordinate; a corner anchor does both
resizeBounds(bounds, direction, deltaX, deltaY) ==
    LET atLeft   == direction \in {"left", "top-left", "bottom-left"}
        atRight  == direction \in {"right", "top-right", "bottom-right"}
        atTop    == direction \in {"top", "top-left", "top-right"}
        atBottom == direction \in {"bottom", "bottom-left", "bottom-right"}
    IN [left   |-> IF atLeft THEN bounds.left + deltaX ELSE bounds.left,
        top    |-> IF atTop THEN bounds.top + deltaY ELSE bounds.top,
        width  |-> IF atLeft THEN bounds.width - deltaX
                   ELSE IF atRight THEN bounds.width + deltaX ELSE bounds.width,
        height |-> IF atTop THEN bounds.height - deltaY
                   ELSE IF atBottom THEN bounds.height + deltaY ELSE bounds.height]

\* clientX, clientY of the pointer-move events on a resize handle pressed at (10, 5)
ResizePointerPositions == {[x |-> 30, y |-> 5], [x |-> 20, y |-> 15]}

\* SelectionResize onStart: the snapshot of the session
SelectionResizeOnStart(shape) ==
    [layout |-> [bounds |-> shape.bounds, rotation |-> 0], shape |-> shape]

\* pointer down on the resize handle of a direction, shown for the selected shape: the
\* session keeps the snapshot, and the handle that owns it
ResizeHandlerPointerDown(direction, pos, buttons) ==
    /\ state.selection # NoSelection
    /\ Has(state.value.shapes, state.selection)
    /\ dragStateRef' =
          LET ref == onDragStart(dragStateRef, pos, buttons,
                                 SelectionResizeOnStart(state.value.shapes[state.selection]))
          IN IF buttons # 1 THEN ref ELSE Merge(ref, [direction |-> direction])
    /\ Handled("onResizeStart")

\* mutant: the deltas reach resizeBounds swapped
SelectionResizeOnMove_swapped(direction, deltaX, deltaY, snapshot) ==
    ReplaceShapes(<<Merge(snapshot.shape,
                          [bounds |-> resizeBounds(snapshot.layout.bounds, direction,
                                                   deltaY, deltaX)])>>)

\* SelectionResize onMove, with DesignView's onShapesChange for a shape
SelectionResizeOnMove(direction, deltaX, deltaY, snapshot) ==
    ReplaceShapes(<<Merge(snapshot.shape,
                          [bounds |-> resizeBounds(snapshot.layout.bounds, direction,
                                                   deltaX, deltaY)])>>)

\* useDragGesture onPointerMove of the resize handle that owns the session
OnResizePointerMove(pos, buttons) ==
    IF dragStateRef = Null
    THEN Handled("onPointerMove") /\ UNCHANGED dragStateRef
    ELSE IF buttons # 1
         THEN Handled("onPointerMove") /\ dragStateRef' = onDragEnd(dragStateRef)
         ELSE SelectionResizeOnMove(dragStateRef.direction,
                                    pos.x - dragStateRef.startX, pos.y - dragStateRef.startY,
                                    dragStateRef.snapshot)

NextResize ==
    \/ SetSelection(DragShape.id)
    \/ \E d \in RESIZE_DIRECTIONS, pos \in DownPositions, b \in Buttons :
          ResizeHandlerPointerDown(d, pos, b)
    \/ \E pos \in ResizePointerPositions, b \in Buttons : OnResizePointerMove(pos, b)
    \/ OnLostPointerCapture

SpecResize == InitDrag /\ [][NextResize]_vars

\* C27: resizeBounds with direction "right" and pointer delta (dx, dy) on bounds
\* {left, top, width, height} gives {left, top, width + dx, height}, whatever dy is, so
\* the same arguments give the same bounds ({0,0,100,100} with dx = 20 gives
\* {0,0,120,100}); a move on the right handle stores exactly these bounds.
C27_ResizeRight ==
    [][/\ resizeBounds([left |-> 0, top |-> 0, width |-> 100, height |-> 100],
                       "right", 20, 0) =
             [left |-> 0, top |-> 0, width |-> 120, height |-> 100]
       /\ \A pos \in ResizePointerPositions :
             (/\ ret'.op = "replaceShapes"
              /\ dragStateRef # Null
              /\ dragStateRef.direction = "right"
              /\ OnResizePointerMove(pos, 1)) =>
                LET S  == dragStateRef.snapshot
                    dx == pos.x - dragStateRef.startX
                    dy == pos.y - dragStateRef.startY
                    expected == [left |-> S.layout.bounds.left, top |-> S.layout.bounds.top,
                                 width |-> S.layout.bounds.width + dx,
                                 height |-> S.layout.bounds.height]
                IN /\ resizeBounds(S.layout.bounds, "right", dx, dy) = expected
                   /\ resizeBounds(S.layout.bounds, "right", dx, 0) = expected
                   /\ state'.value.shapes[S.shape.id].bounds = expected
                   /\ Without(state'.value.shapes[S.shape.id], {"bounds"}) =
                         Without(S.shape, {"bounds"})]_vars

\* C27 witness: the right handle of the shape was dragged by (10, 10) and then by
\* (20, 0) in one session: the shape is 20 wider than the snapshot and nothing else moved
C27_Witness ==
    /\ ret.op = "replaceShapes"
    /\ nCalls = 2
    /\ dragStateRef # Null
    /\ dragStateRef.direction = "right"
    /\ dragStateRef.snapshot.shape = DragShape
    /\ state.value.shapes[DragShape.id].bounds =
          [left |-> DragShape.bounds.left, top |-> DragShape.bounds.top,
           width |-> DragShape.bounds.width + 20, height |-> DragShape.bounds.height]

\* the direct updates DesignView's onMove makes
MoveOps == {"replaceShapes", "updateTextPosition", "updateImagePosition"}

\* C28: when the element of the active drag session is no longer in the document (it
\* was deleted, or removed by an undo or by a remote document), a move event of that
\* session leaves the document without it.
C28_NoResurrectionByDrag ==
    [][(/\ dragStateRef # Null
        /\ ret'.op \in MoveOps
        /\ ~Has(state.value[CollectionOf(dragStateRef.snapshot)], dragStateRef.snapshot.id)) =>
          ~Has(state'.value[CollectionOf(dragStateRef.snapshot)], dragStateRef.snapshot.id)]_vars

(****************** whole-document sync: its own specification ****************)
\* The room is one Realtime Database location.  A set() is applied to the writer's view
\* at once and sent to the server; the server applies the writes in the order it gets
\* them and sends every value to every listener, the writer included (its confirmation).
\* While a client has a write of its own that is not confirmed, that write hides the
\* room values arriving from the server, so its onValue listener is not called for them.

\* what the database keeps of a document: an empty object is not stored
stored(value) == [k \in {x \in DOMAIN value : DOMAIN value[x] # {}} |-> value[k]]

\* the documents local edits leave in the store: one text, at two positions
SyncDocs ==
    { [DEFAULT_EDITOR_VALUE EXCEPT !.texts =
          Put(EmptyObj, DragText.id,
              Merge(DragText, [bounds |-> Merge(DragText.bounds, [left |-> l])]))]
      : l \in {0, 30} }

\* the listener App subscribes to the store, called with each state a call delivers:
\* updateDesign(state.value), which is set(designRef, {value, lastUpdatedBy: userId})
Push(client, states) ==
    [client EXCEPT !.up = @ \o [i \in 1..Len(states) |-> states[i].value]]

\* writes of the client that the server has not confirmed to it yet
PendingWrites(client, userId) ==
    Len(client.up)
      + Cardinality({i \in 1..Len(client.down) : client.down[i].lastUpdatedBy = userId})

\* mutant: an inbound document is dropped
updateDesignDataOn_ignored(st, value) == st

\* updateDesignData on the store st of a client
updateDesignDataOn(st, value) ==
    setState(st, Merge(st, [value |-> cleanUndefinedValues(value)]))

\* local edits stop after this many
MaxEdits == 2

\* a call of the mutation API on the editor of a client that leaves value in the store:
\* a direct update delivers one store state, a historied edit two (the document, then
\* the history flags)
LocalEdit(userId, value, deliveries) ==
    LET c   == clients[userId]
        st1 == setState(c.state, [value |-> value])
        st2 == setState(st1, [canUndo |-> TRUE, canRedo |-> FALSE])
    IN /\ nCalls < MaxEdits
       /\ nCalls' = nCalls + 1
       /\ clients' = [clients EXCEPT ![userId] =
             IF deliveries = 1 THEN Push([c EXCEPT !.state = st1], <<st1>>)
             ELSE Push([c EXCEPT !.state = st2], <<st1, st2>>)]
       /\ ret' = Void("localEdit")
       /\ UNCHANGED <<state, history, currentIndex, nextId, nCmd, notified, dragStateRef,
                      room, ui>>

\* the server applies the oldest write of a client it has not applied yet
ServerApply(userId) ==
    /\ clients[userId].up # <<>>
    /\ LET data == [value |-> stored(Head(clients[userId].up)), lastUpdatedBy |-> userId]
       IN /\ room' = data
          /\ clients' = [c \in UserIds |->
                IF c = userId
                THEN [clients[c] EXCEPT !.up = Tail(@), !.down = Append(@, data)]
                ELSE [clients[c] EXCEPT !.down = Append(@, data)]]
    /\ UNCHANGED <<state, history, currentIndex, nextId, nCalls, nCmd, ret, notified,
                   dragStateRef, ui>>

\* a client processes the oldest room value the server has sent it: syncDesign's onValue
\* listener, then App's onUpdate, then the store listener
ClientReceive(userId) ==
    /\ clients[userId].down # <<>>
    /\ LET c    == clients[userId]
           data == Head(c.down)
           rest == [c EXCEPT !.down = Tail(@)]
       IN clients' = [clients EXCEPT ![userId] =
             IF data.lastUpdatedBy # userId /\ PendingWrites(c, userId) = 0
             THEN LET st == updateDesignDataOn(c.state, data.value)
                  IN Push([rest EXCEPT !.state = st], <<st>>)
             ELSE rest]
    /\ UNCHANGED <<state, history, currentIndex, nextId, nCalls, nCmd, ret, notified,
                   dragStateRef, room, ui>>

NextSync ==
    \/ \E userId \in UserIds, v \in SyncDocs, n \in {1, 2} : LocalEdit(userId, v, n)
    \/ \E userId \in UserIds : ServerApply(userId)
    \/ \E userId \in UserIds : ClientReceive(userId)

\* the network delivers: every write reaches the server, every room value its listeners
SpecSync ==
    /\ Init
    /\ [][NextSync]_vars
    /\ \A userId \in UserIds : WF_vars(ServerApply(userId))
    /\ \A userId \in UserIds : WF_vars(ClientReceive(userId))

\* C29: once local edits have stopped, the store documents of both clients eventually
\* equal the value last written to the room, and stay equal to it.
C29_SyncConverges ==
    <>[](room # Null => \A userId \in UserIds : clients[userId].state.value = room.value)

\* C29 witness: both clients have edited, and both stores hold the room's document
C29_Witness ==
    /\ room # Null
    /\ nCalls >= 2
    /\ \A userId \in UserIds :
          /\ clients[userId].state.canUndo
          /\ clients[userId].state.value = room.value

\* no write is on its way to the server and no room value on its way to a client
Quiet == \A userId \in UserIds : clients[userId].up = <<>> /\ clients[userId].down = <<>>

\* C30: when one client makes a single local edit and nothing else is done locally, only
\* finitely many room writes are issued: eventually nothing is in flight, and it stays so.
C30_SyncQuiescence ==
    <>[]Quiet \/ <>(nCalls > 1)


(****************** AI text rewrite: its own specification ********************)
\* what optimizeText resolves to: a suggestion (empty, the text sent, or a new text), or
\* Null when the promise is rejected
OptimizeResults ==
    {Null, [suggestion |-> ""], [suggestion |-> "remote"], [suggestion |-> "better"]}

\* RightPanel's selectedText
selectedTextOf(st) ==
    IF st.selection # NoSelection /\ Has(st.value.texts, st.selection)
    THEN st.value.texts[st.selection]
    ELSE Null

\* handleOptimizeText up to its await: the panel shows no button while a call is pending
HandleOptimizeText ==
    LET selectedText == selectedTextOf(state)
    IN /\ optimizing = Null
       /\ selectedText # Null
       /\ selectedText.content # ""
       /\ optimizing' = selectedText
       /\ ret' = Void("handleOptimizeText")
       /\ notified' = <<>>
       /\ UNCHANGED <<state, history, currentIndex, nextId, nCalls, nCmd, dragStateRef, room,
                      clients, gesture>>

\* handleOptimizeText from its await on, with the selectedText it closed over
OptimizeTextSettled(result) ==
    /\ optimizing # Null
    /\ optimizing' = Null
    /\ IF result # Null /\ result.suggestion # "" /\ result.suggestion # optimizing.content
       THEN updateTextContent(optimizing.id, result.suggestion)
       ELSE /\ ret' = Void("handleOptimizeText")
            /\ notified' = <<>>
            /\ UNCHANGED <<state, history, currentIndex, nextId, nCalls, nCmd, dragStateRef,
                           room, clients, gesture>>

NextRewrite ==
    \/ \E s \in {NoSelection} \cup DOMAIN state.value.texts : SetSelection(s)
    \/ HandleOptimizeText
    \/ \E result \in OptimizeResults : OptimizeTextSettled(result)
    \/ \E p \in TextPayloads : CreateText(p)
    \/ \E id \in DOMAIN state.value.texts : DeleteTexts(<<id>>)
    \/ \E v \in RemoteDocs : UpdateDesignData(v)
    \/ Undo
    \/ Redo

SpecRewrite == InitDrag /\ [][NextRewrite]_vars

\* the editor's own state
core == <<state, history, currentIndex, nextId, nCmd>>

\* C31: a rewrite result re-enters only through updateTextContent.  Starting a rewrite
\* changes nothing of the editor (no core state records that one is pending).  A result
\* that arrives when its text is no longer in the document (deleted, removed by undo or
\* by a remote document) leaves the store, the history and the cursor as they are.  A
\* result that is applied while the text exists is one historied updateTextContent on
\* that id: one Command from the live document to the document in which only that
\* text's content differs, the store holds that document, the selection is kept.
C31_RewriteReenters ==
    [][/\ (optimizing = Null /\ optimizing' # Null) => UNCHANGED core
       /\ (optimizing # Null /\ optimizing' = Null) =>
            LET id == optimizing.id
            IN IF ~Has(state.value.texts, id) \/ ret'.op # "updateTextContent"
               THEN UNCHANGED core
               ELSE LET suggested == state'.value.texts[id].content
                        next == [state.value EXCEPT !.texts =
                                   Put(@, id, Merge(@[id], [content |-> suggested]))]
                    IN /\ Has(state'.value.texts, id)
                       /\ suggested \notin {"", optimizing.content}
                       /\ state'.value = next
                       /\ state'.selection = state.selection
                       /\ nCmd' = nCmd + 1
                       /\ currentIndex' >= 0
                       /\ history'[currentIndex' + 1].previousValue = state.value
                       /\ history'[currentIndex' + 1].nextValue = next
                       /\ history'[currentIndex' + 1].serial = nCmd'
                       /\ Len(history') = currentIndex' + 1
                       /\ state'.canUndo /\ ~state'.canRedo]_vars

\* C31 witness: the result of a rewrite of the created text arrived after undo had
\* removed that text, updateTextContent was called and returned early
C31_Witness ==
    /\ ret.op = "updateTextContent"
    /\ optimizing = Null
    /\ state.canRedo
    /\ ~Has(state.value.texts, 1)
    /\ Len(history) = 1 /\ Has(history[1].nextValue.texts, 1)


\* C32: in every state where undo() succeeds, a redo() right after it leaves the store
\* document equal to what it was just before the undo, also when direct updates or
\* updateDesignData calls came after the last historied command.
C32_UndoRedoIdentity ==
    [][(ret'.op = "undo" /\ ~hmUndo(history, currentIndex).isNull) =>
          redoOutcome(state', history', currentIndex').state.value = state.value]_vars


\* C33: for every two adjacent commands of the history list, the next-snapshot of the
\* earlier one equals the previous-snapshot of the later one.
C33_HistoryChainContinuity ==
    \A j \in 1..(Len(history) - 1) : history[j].nextValue = history[j + 1].previousValue


\* C34: undo reverts only the effect of its command.  An entity of the store document
\* that neither snapshot of the command at the cursor contains (it came with a remote
\* document after the command) is still in the store document after undo() of that
\* command.
C34_UndoKeepsRemoteChanges ==
    [][(ret'.op = "undo" /\ ~hmUndo(history, currentIndex).isNull) =>
          LET command == history[currentIndex + 1]
          IN \A id \in Entities(state.value) :
                id \notin Entities(command.previousValue) \cup Entities(command.nextValue)
                   => id \in Entities(state'.value)]_vars


(****************** selection: its own specification **************************)
\* the editor with setSelection called as the views call it: with null or with the id
\* of an entity that is in the document
NextSelection ==
    \/ \E s \in {NoSelection} \cup Entities(state.value) : SetSelection(s)
    \/ \E v \in ImportedDocs : LoadDesign(v)
    \/ \E v \in RemoteDocs : UpdateDesignData(v)
    \/ Undo
    \/ Redo
    \/ \E p \in ShapePayloads : CreateShape(p)
    \/ \E p \in TextPayloads : CreateText(p)
    \/ \E p \in ImagePayloads : CreateImage(p)
    \/ \E ids \in IdLists : DeleteShapes(ids)
    \/ \E ids \in IdLists : DeleteTexts(ids)
    \/ \E ids \in IdLists : DeleteImages(ids)

SpecSelection == Init /\ [][NextSelection]_vars

\* C35: with setSelection called only with null or the id of an entity of the document,
\* a selection that is not null is the id of an entity held by exactly one collection of
\* the store document.
C35_SelectionValidity ==
    state.selection # NoSelection =>
        Cardinality(HoldersOf(state.value, state.selection)) = 1


(****************** drag with edits in between: its own specification *********)
\* a drag of DesignView while the dragged entity is edited from elsewhere (the
\* RightPanel, a remote document)
NextDragEdit ==
    \/ \E e \in Elements(state.value), pos \in DownPositions, b \in Buttons :
          PointerDownOnElement(e, pos, b)
    \/ \E pos \in PointerPositions, b \in Buttons : OnPointerMove(pos, b)
    \/ OnLostPointerCapture
    \/ \E a \in ShapeAttributes : UpdateShapeAttributes(<<DragShape.id>>, a)
    \/ \E st \in TextStyles : UpdateTextStyle(DragText.id, st)
    \/ \E o \in Opacities : UpdateImageOpacity(DragImage.id, o)

SpecDragEdit == InitDrag /\ [][NextDragEdit]_vars

\* C36: a move event of a drag session changes bounds.left and bounds.top of the dragged
\* entity and nothing else: every other field of that entity keeps the value the store
\* holds (also when it was changed after the drag started), and all other entities and
\* the canvas attributes are unchanged.
C36_DragMovesOnlyPosition ==
    [][(ret'.op \in MoveOps /\ dragStateRef # Null) =>
          LET S    == dragStateRef.snapshot
              coll == CollectionOf(S)
          IN /\ \A c \in Collections : DOMAIN state'.value[c] = DOMAIN state.value[c]
             /\ state'.value.attributes = state.value.attributes
             /\ \A c \in Collections : \A id \in DOMAIN state.value[c] :
                   IF c = coll /\ id = S.id
                   THEN /\ Without(state'.value[c][id], {"bounds"}) =
                              Without(state.value[c][id], {"bounds"})
                        /\ Without(state'.value[c][id].bounds, {"left", "top"}) =
                              Without(state.value[c][id].bounds, {"left", "top"})
                   ELSE state'.value[c][id] = state.value[c][id]]_vars


\* C37: after every public operation has returned, the store's canUndo equals
\* HistoryManager.canUndo() and the store's canRedo equals HistoryManager.canRedo().
C37_HistoryFlagsAtRest ==
    /\ state.canUndo = canUndoAt(currentIndex)
    /\ state.canRedo = canRedoAt(history, currentIndex)

\* C37 witness: after an undo in a history of two commands, followed by a direct update,
\* both flags are set
C37_Witness ==
    /\ Len(history) = 2
    /\ currentIndex = 0
    /\ ret.op \in DirectUpdateOps \cup {"updateDesignData"}
    /\ state.canUndo
    /\ state.canRedo


\* C38: every undo() or redo() that succeeds sets the selection to null in the store
\* update that replaces the document, whatever was selected before and whether or not
\* the selected entity is in the restored document.
C38_UndoRedoClearSelection ==
    [][/\ (ret'.op = "undo" /\ ~hmUndo(history, currentIndex).isNull) =>
             /\ notified' # <<>>
             /\ notified'[1].value = hmUndo(history, currentIndex).result
             /\ notified'[1].selection = NoSelection
             /\ state'.selection = NoSelection
       /\ (ret'.op = "redo" /\ ~hmRedo(history, currentIndex).isNull) =>
             /\ notified' # <<>>
             /\ notified'[1].value = hmRedo(history, currentIndex).result
             /\ notified'[1].selection = NoSelection
             /\ state'.selection = NoSelection]_vars

\* C38 witness: a redo brought back a document with entities, and nothing is selected
C38_Witness ==
    /\ ret.op = "redo"
    /\ Len(notified) = 2
    /\ Entities(state.value) # {}
    /\ state.selection = NoSelection
    /\ currentIndex = 0


\* the request of the RightPanel's stroke switch when it is turned on for shape
StrokeSwitchOn(shape) ==
    LET remembered == IF Has(shape, "rememberedStroke") THEN shape.rememberedStroke
                      ELSE defaultStroke
    IN [stroke |-> [color |-> remembered.color, weight |-> remembered.weight]]

\* the fill of each path, and the fill the shape remembers
FillsOf(shape) ==
    [paths |-> [i \in 1..Len(shape.paths) |->
                  IF Has(shape.paths[i], "fill") THEN shape.paths[i].fill ELSE Null],
     rememberedFill |-> IF Has(shape, "rememberedFill") THEN shape.rememberedFill ELSE Null]

\* C39: disabling the stroke of a shape (stroke explicit-null) and then enabling it again
\* with the remembered color and weight leaves the fill of every path (present or
\* absent, and its color) and the shape's rememberedFill as they were before.
C39_StrokeToggleKeepsFill ==
    [][\A ids \in StyleTargets :
          (/\ ret'.op = "updateShapePaths"
           /\ UpdateShapePaths(ids, [stroke |-> Null])) =>
              LET before   == state.value.shapes[ids[1]]
                  disabled == state'.value.shapes[ids[1]]
                  enabled  == UpdatedShape(disabled, StrokeSwitchOn(disabled))
              IN FillsOf(enabled) = FillsOf(before)]_vars


(****************** pointer events and the drag timer: its own specification **)
\* The events are those one pointing device produces: a press of the primary button
\* when no button is held, its release, moves that carry the buttons held, and the
\* 250 ms timer a pointer-down on a text starts.  Double clicks are left out
\* (isDoubleClickingRef stays false).

\* onPointerDown of a shape or an image with the primary button: select it and start the
\* session; setPointerCapture succeeds, the button being held
PointerDownOnShapeOrImage(element, pos) ==
    /\ pointer.buttons = 0
    /\ element.type # "text"
    /\ state' = setState(state, [selection |-> element.id])
    /\ notified' = <<state'>>
    /\ ret' = Void("onDragStart")
    /\ dragStateRef' = onDragStart(dragStateRef, pos, 1, element)
    /\ pointer' = [pointer EXCEPT !.buttons = 1, !.captured = TRUE, !.sessionHeld = TRUE]
    /\ UNCHANGED <<history, currentIndex, nextId, nCalls, nCmd, room, clients, optimizing,
                   dragTimeoutRef>>

\* onPointerDown of a text with the primary button: clear a pending timer, select the
\* text, keep the event data and start the timer
PointerDownOnText(text, pos) ==
    /\ pointer.buttons = 0
    /\ text.type = "text"
    /\ state' = setState(state, [selection |-> text.id])
    /\ notified' = <<state'>>
    /\ ret' = Void("onPointerDown")
    /\ dragTimeoutRef' = [clientX |-> pos.x, clientY |-> pos.y, buttons |-> 1, text |-> text]
    /\ pointer' = [pointer EXCEPT !.buttons = 1, !.timerHeld = TRUE]
    /\ UNCHANGED <<history, currentIndex, nextId, nCalls, nCmd, room, clients, optimizing,
                   dragStateRef>>

\* onPointerDown of the canvas behind the elements (no tool chosen): clear the selection
PointerDownOnCanvas ==
    /\ pointer.buttons = 0
    /\ state' = setState(state, [selection |-> NoSelection])
    /\ notified' = <<state'>>
    /\ ret' = Void("onPointerDown")
    /\ pointer' = [pointer EXCEPT !.buttons = 1]
    /\ UNCHANGED <<history, currentIndex, nextId, nCalls, nCmd, room, clients, optimizing,
                   dragStateRef, dragTimeoutRef>>

\* the timer of a pointer-down on a text fires: onDragStart with the event data kept at
\* the pointer-down; setPointerCapture takes effect only while a button is held
DragTimeout ==
    /\ dragTimeoutRef # Null
    /\ dragStateRef' = onDragStart(dragStateRef,
                                   [x |-> dragTimeoutRef.clientX, y |-> dragTimeoutRef.clientY],
                                   dragTimeoutRef.buttons, dragTimeoutRef.text)
    /\ dragTimeoutRef' = Null
    /\ pointer' = [pointer EXCEPT !.captured = @ \/ pointer.buttons = 1,
                                  !.sessionHeld = pointer.timerHeld,
                                  !.timerHeld = FALSE]
    /\ ret' = Void("onDragStart")
    /\ notified' = <<>>
    /\ UNCHANGED <<state, history, currentIndex, nextId, nCalls, nCmd, room, clients,
                   optimizing>>

\* the button is released: no handler listens to pointerup; an element that has the
\* pointer capture loses it, and onLostPointerCapture ends the session
PointerUp ==
    /\ pointer.buttons = 1
    /\ pointer' = [buttons |-> 0, captured |-> FALSE, timerHeld |-> FALSE,
                   sessionHeld |-> FALSE]
    /\ dragStateRef' = IF pointer.captured THEN onDragEnd(dragStateRef) ELSE dragStateRef
    /\ ret' = Void(IF pointer.captured THEN "onLostPointerCapture" ELSE "pointerup")
    /\ notified' = <<>>
    /\ UNCHANGED <<state, history, currentIndex, nextId, nCalls, nCmd, room, clients,
                   optimizing, dragTimeoutRef>>

\* the pointer moves: the event carries the buttons held
PointerMove(pos) == OnPointerMove(pos, pointer.buttons)

NextPointer ==
    \/ \E e \in Elements(state.value), pos \in DownPositions : PointerDownOnShapeOrImage(e, pos)
    \/ \E e \in Elements(state.value), pos \in DownPositions : PointerDownOnText(e, pos)
    \/ PointerDownOnCanvas
    \/ DragTimeout
    \/ PointerUp
    \/ \E pos \in PointerPositions : PointerMove(pos)

SpecPointer == InitDrag /\ [][NextPointer]_vars

\* C40: a drag session exists only while the primary button has been held without a
\* release since the pointer-down that started it, and no move event moves an entity
\* whose pointer-down was already followed by a release.
C40_SessionOnlyWhileHeld ==
    [][/\ dragStateRef' # Null => pointer'.sessionHeld
       /\ ret'.op \in MoveOps => pointer.sessionHeld]_vars

====
